---- MODULE Spec2Model ----
(***************************************************************************)
(* Reaching-definitions analysis of angr (analyses/reaching_definitions.py *)
(* and engines/light/engine.py).                                           *)
(*                                                                         *)
(* Python objects that are shared by reference are modelled with an        *)
(* explicit heap: every set object created by a defaultdict(set) is a cell *)
(* of `heap`, and a dict holds the cell's index.  Definition objects hash  *)
(* by identity (the class defines __eq__ but no __hash__, Python 2), so    *)
(* every Definition carries the identity `id` it was created with.         *)
(***************************************************************************)
EXTENDS Integers, FiniteSets, Sequences, TLC

VARIABLES
    slots,      \* name of a ReachingDefinitions object -> its fields
    heap,       \* the set objects held in _uses_by_definition / tmp_uses
    nextDef,    \* identity of the next Definition object to be created
    stmt_idx,   \* index of the statement being handled (its code location)
    engine,     \* the SimEngineRD object: state, tmps, ins_addr, statement
    analysis,   \* the ReachingDefinitionAnalysis object
    visitor,    \* the forward analysis and its graph visitor
    plugins     \* the SimStatePlugin objects and the memo of their copies

callVars == <<slots, stmt_idx>>
runVars == <<engine, analysis, visitor, plugins>>
vars == <<slots, heap, nextDef, stmt_idx, engine, analysis, visitor, plugins>>

\* ------------------------------------------------------------------ bounds
\* number of statements handled in a run of calls on state objects
MaxStmts == 4
\* the same, where states are merged
MaxMergeStmts == 3

\* ------------------------------------------------------------------ atoms
Register(reg_offset, size) == [kind |-> "reg", offset |-> reg_offset, size |-> size]
MemoryLocation(addr, size) == [kind |-> "mem", offset |-> addr, size |-> size]
Tmp(tmp_idx) == [kind |-> "tmp", offset |-> tmp_idx, size |-> 0]

\* ------------------------------------------------------------------ values
\* A member of a DataSet: its type t and its fields v and w.
IntVal(n) == [t |-> "int", v |-> n, w |-> 0]
Undefined == [t |-> "undefined", v |-> 0, w |-> 0]
\* SpOffset(bits, offset) of engines/light: an offset from the stack pointer
SpOffset(bits, offset) == [t |-> "SpOffset", v |-> offset, w |-> bits]
\* Parameter(value), where value is a Register or an SpOffset; the Parameter
\* and its value are objects, and two of them with the same offset are the
\* same object.
Parameter(value) ==
    IF "kind" \in DOMAIN value
    THEN [t |-> "Parameter(Register)", v |-> value.offset, w |-> value.size]
    ELSE [t |-> "Parameter(SpOffset)", v |-> value.v, w |-> value.w]
DataSet(data, bits) == [data |-> data, bits |-> bits]

Definition(id, atom, codeloc, data) ==
    [id |-> id, atom |-> atom, codeloc |-> codeloc, data |-> data]

\* --------------------------------------------------- DataSet operators
\* the bitwise operators of Python on two non-negative integers
RECURSIVE bitwise(_, _, _)
bitwise(op, a, b) ==
    IF a = 0 /\ b = 0
    THEN 0
    ELSE 2 * bitwise(op, a \div 2, b \div 2)
             + (CASE op = "and_" -> IF a % 2 = 1 /\ b % 2 = 1 THEN 1 ELSE 0
                  [] op = "or_" -> IF a % 2 = 1 \/ b % 2 = 1 THEN 1 ELSE 0
                  [] op = "xor" -> IF a % 2 # b % 2 THEN 1 ELSE 0)

\* operator.<op>(s, o) on two integers
operator(op, s, o) ==
    CASE op = "add" -> s + o
      [] op = "sub" -> s - o
      [] op = "lshift" -> s * (2 ^ o)
      [] op = "rshift" -> s \div (2 ^ o)
      [] OTHER -> bitwise(op, s, o)

\* a Python int or bool
IsInt(x) == x.t \in {"int", "bool"}

\* the pair's result without the mask
bin_op_pair_unmasked(op, s, o, bits) ==
    IF o = Undefined \/ s = Undefined
    THEN Undefined
    ELSE IF IsInt(s) /\ IsInt(o)
         THEN IntVal(operator(op, s.v, o.v))
         ELSE Undefined

\* the member that _bin_op adds for the pair (s, o); a pair with a member that
\* has no such operator (a Parameter) raises the TypeError
bin_op_pair(op, s, o, bits) ==
    IF o = Undefined \/ s = Undefined
    THEN Undefined
    ELSE IF IsInt(s) /\ IsInt(o)
         THEN IntVal(operator(op, s.v, o.v) % (2 ^ bits))
         ELSE Undefined

\* _bin_op with the result of a type error left out
bin_op_skipping(self, other, op) ==
    DataSet({bin_op_pair(op, s, o, self.bits) :
                 s \in {x \in self.data : x = Undefined \/ IsInt(x)},
                 o \in {x \in other.data : x = Undefined \/ IsInt(x)}},
            self.bits)

bin_op(self, other, op) ==
    DataSet({bin_op_pair(op, s, o, self.bits) : s \in self.data, o \in other.data},
            self.bits)

\* ------------------------------------------------------------- KeyedRegion
\* A region is the set of its entries; an entry stores one object over
\* [start, start + size).
KeyedRegion == {}

FullyCovered(e, offset, size) ==
    offset <= e.start /\ e.start + e.size <= offset + size

set_object(region, offset, obj, size) ==
    {e \in region : ~FullyCovered(e, offset, size)}
        \cup {[start |-> offset, size |-> size, obj |-> obj]}

get_objects_by_offset(region, offset) ==
    {e.obj : e \in {x \in region : x.start <= offset /\ offset < x.start + x.size}}

KeyedRegion_copy(region) == region

KeyedRegion_merge(region, other) == region \cup other

\* -------------------------------------------------------------------- Uses
\* uses_by_definition maps a Definition to the index of its set object in
\* the heap; current_uses is a KeyedRegion of definitions.
EmptyMap == [x \in {} |-> 0]

\* F applied to a value computed once: a local variable of the code
With(x, F(_)) == F(x)

MapPut(f, k, v) == [x \in (DOMAIN f) \cup {k} |-> IF x = k THEN v ELSE f[x]]

Uses == [uses_by_definition |-> EmptyMap, current_uses |-> KeyedRegion]

\* The set object of a defaultdict(set) entry: the existing cell, or a new
\* empty cell appended to the heap.
CellOf(map, h, k) == IF k \in DOMAIN map THEN map[k] ELSE Len(h) + 1

HeapAdd(h, cell, x) ==
    IF cell \in DOMAIN h THEN [h EXCEPT ![cell] = @ \cup {x}] ELSE Append(h, {x})

Uses_add_use(u, h, definition, codeloc) ==
    LET cell == CellOf(u.uses_by_definition, h, definition)
    IN [u |-> [uses_by_definition |-> MapPut(u.uses_by_definition, definition, cell),
               current_uses |-> set_object(u.current_uses, definition.atom.offset,
                                           definition, definition.atom.size)],
        h |-> HeapAdd(h, cell, codeloc)]

Uses_get_uses(u, h, definition) ==
    IF definition \notin DOMAIN u.uses_by_definition
    THEN {}
    ELSE h[u.uses_by_definition[definition]]

Uses_get_current_uses(u, definition) ==
    UNION {get_objects_by_offset(u.current_uses, definition.atom.offset + pos) :
              pos \in 0 .. (definition.atom.size - 1)}

Uses_copy(u) ==
    [uses_by_definition |-> u.uses_by_definition,
     current_uses |-> KeyedRegion_copy(u.current_uses)]

\* The definition with the least identity: the order in which a Python set or
\* dict of definitions is walked does not change the outcome, so one order
\* is fixed.
FirstDef(defs) == CHOOSE d \in defs : \A e \in defs : d.id <= e.id

\* `self._uses_by_definition[k] = v` on both branches
RECURSIVE Uses_merge_items_assign(_, _, _, _)
Uses_merge_items_assign(map, h, other_map, keys) ==
    IF keys = {}
    THEN [map |-> map, h |-> h]
    ELSE LET k == CHOOSE d \in keys : \A e \in keys : d.id <= e.id
         IN Uses_merge_items_assign(MapPut(map, k, other_map[k]), h, other_map,
                                    keys \ {k})

RECURSIVE Uses_merge_items(_, _, _, _)
Uses_merge_items(map, h, other_map, keys) ==
    IF keys = {}
    THEN [map |-> map, h |-> h]
    ELSE LET k == FirstDef(keys)
             v == other_map[k]
         IN IF k \notin DOMAIN map
            THEN Uses_merge_items(MapPut(map, k, v), h, other_map, keys \ {k})
            ELSE Uses_merge_items(map, [h EXCEPT ![map[k]] = @ \cup h[v]],
                                  other_map, keys \ {k})

Uses_merge(u, h, other) ==
    LET r == Uses_merge_items(u.uses_by_definition, h, other.uses_by_definition,
                              DOMAIN other.uses_by_definition)
    IN [u |-> [uses_by_definition |-> r.map,
               current_uses |-> KeyedRegion_merge(u.current_uses, other.current_uses)],
        h |-> r.h]

\* ----------------------------------------------------- ReachingDefinitions
\* The architecture (archinfo) of the binary under analysis: a 16-bit
\* machine with the registers r0, r1 and sp.
arch ==
    [name |-> "generic", bits |-> 16, bytes |-> 2, memory_endness |-> "Iend_LE",
     sp_offset |-> 4, bp_offset |-> 10, ip_offset |-> 8, initial_sp |-> 8,
     registers |-> [r \in {"r0", "r1", "sp", "t9", "rtoc"} |->
                        CASE r = "r0" -> <<0, 2>>
                          [] r = "r1" -> <<2, 2>>
                          [] r = "sp" -> <<4, 2>>
                          [] OTHER -> <<6, 2>>]]

\* the arguments of a calling convention (calling_conventions.py)
SimRegArg(reg_name, size) ==
    [type |-> "SimRegArg", reg_name |-> reg_name, stack_offset |-> 0, size |-> size]
SimStackArg(stack_offset, size) ==
    [type |-> "SimStackArg", reg_name |-> "", stack_offset |-> stack_offset, size |-> size]

\* the code location of a definition made by _init_func: None
NoCodeLoc == <<-1, -1>>

\* Python's None where an integer or an object is expected
None == -1

\* `analysis` is the back-pointer to the analysis that owns the state
ReachingDefinitions ==
    [analysis |-> None,
     register_definitions |-> KeyedRegion,
     memory_definitions |-> KeyedRegion,
     tmp_definitions |-> EmptyMap,
     register_uses |-> Uses,
     memory_uses |-> Uses,
     tmp_uses |-> EmptyMap,
     dead_virgin_definitions |-> {}]

\* every stack argument put at the stack pointer itself
init_func_arg_at_sp(s, arg, id) ==
    IF arg.type = "SimRegArg"
    THEN s
    ELSE [s EXCEPT !.memory_definitions =
             set_object(@, arch.initial_sp,
                        Definition(id, MemoryLocation(arch.initial_sp, arch.bytes),
                                   NoCodeLoc,
                                   DataSet({Parameter(SpOffset(arg.size * 8,
                                                               arg.stack_offset))},
                                           arch.bits)),
                        arch.bytes)]

\* the definition _init_func makes for one argument of the calling convention
init_func_arg(s, arg, id) ==
    IF arg.type = "SimRegArg"
    THEN With(Register(arch.registers[arg.reg_name][1], arch.bytes),
              LAMBDA reg :
                  [s EXCEPT !.register_definitions =
                      set_object(@, reg.offset,
                                 Definition(id, reg, NoCodeLoc,
                                            DataSet({Parameter(reg)}, arch.bits)),
                                 reg.size)])
    ELSE With(MemoryLocation(arch.initial_sp + arg.stack_offset, arch.bytes),
              LAMBDA ml :
                  [s EXCEPT !.memory_definitions =
                      set_object(@, ml.offset,
                                 Definition(id, ml, NoCodeLoc,
                                            DataSet({Parameter(SpOffset(arg.size * 8,
                                                                        arg.stack_offset))},
                                                    arch.bits)),
                                 ml.size)])

\* `for arg in cc.args`, from argument number i on
RECURSIVE init_func_args(_, _, _, _)
init_func_args(s, args, i, id) ==
    IF i > Len(args)
    THEN s
    ELSE init_func_args(init_func_arg(s, args[i], id), args, i + 1, id + 1)

\* a register set to one integer by the architecture's initialisation
init_func_register(s, reg_name, value, id) ==
    With(Register(arch.registers[reg_name][1], arch.registers[reg_name][2]),
         LAMBDA reg :
             [s EXCEPT !.register_definitions =
                 set_object(@, reg.offset,
                            Definition(id, reg, NoCodeLoc,
                                       DataSet({IntVal(value)}, arch.bits)),
                            reg.size)])

\* the main object of the loader
main_object == [ppc64_initial_rtoc |-> 0]

\* _init_func(cc, func_addr); cc.args is empty where cc is None.  The
\* definitions are created with the identities id, id + 1, ...
init_func(s, args, func_addr, id) ==
    With(init_func_args(
             [s EXCEPT !.register_definitions =
                 set_object(@, arch.sp_offset,
                            Definition(id, Register(arch.sp_offset, arch.bytes),
                                       NoCodeLoc,
                                       DataSet({IntVal(arch.initial_sp)}, arch.bits)),
                            arch.bytes)],
             args, 1, id + 1),
         LAMBDA r :
             IF arch.name = "ppc64"
             THEN IF main_object.ppc64_initial_rtoc # 0
                  THEN init_func_register(r, "rtoc", main_object.ppc64_initial_rtoc,
                                          id + 1 + Len(args))
                  ELSE r
             ELSE IF arch.name = "mips64"
                  THEN init_func_register(r, "t9", func_addr, id + 1 + Len(args))
                  ELSE r)

\* ReachingDefinitions(arch, loader, init_func=..., cc=..., func_addr=...)
new_state(init_func_set, args, func_addr, id) ==
    IF init_func_set
    THEN init_func(ReachingDefinitions, args, func_addr, id)
    ELSE ReachingDefinitions

copy(s) ==
    [analysis |-> s.analysis,
     register_definitions |-> KeyedRegion_copy(s.register_definitions),
     memory_definitions |-> KeyedRegion_copy(s.memory_definitions),
     tmp_definitions |-> s.tmp_definitions,
     register_uses |-> Uses_copy(s.register_uses),
     memory_uses |-> Uses_copy(s.memory_uses),
     tmp_uses |-> s.tmp_uses,
     dead_virgin_definitions |-> s.dead_virgin_definitions]

\* `state._dead_virgin_definitions = other._dead_virgin_definitions`
merge_one_dead_assigned(state, h, other) ==
    LET ru == Uses_merge(state.register_uses, h, other.register_uses)
        mu == Uses_merge(state.memory_uses, ru.h, other.memory_uses)
    IN [s |-> [state EXCEPT
                 !.register_definitions =
                     KeyedRegion_merge(@, other.register_definitions),
                 !.memory_definitions =
                     KeyedRegion_merge(@, other.memory_definitions),
                 !.register_uses = ru.u,
                 !.memory_uses = mu.u,
                 !.dead_virgin_definitions = other.dead_virgin_definitions],
        h |-> mu.h]

merge_one(state, h, other) ==
    LET ru == Uses_merge(state.register_uses, h, other.register_uses)
        mu == Uses_merge(state.memory_uses, ru.h, other.memory_uses)
    IN [s |-> [state EXCEPT
                 !.register_definitions =
                     KeyedRegion_merge(@, other.register_definitions),
                 !.memory_definitions =
                     KeyedRegion_merge(@, other.memory_definitions),
                 !.register_uses = ru.u,
                 !.memory_uses = mu.u,
                 !.dead_virgin_definitions = @ \cup other.dead_virgin_definitions],
        h |-> mu.h]

RECURSIVE merge_others(_, _, _)
merge_others(state, h, others) ==
    IF others = <<>>
    THEN [s |-> state, h |-> h]
    ELSE LET r == merge_one(state, h, Head(others))
         IN merge_others(r.s, r.h, Tail(others))

\* merge() taking the temporaries of the first of the others
merge_tmps_of_others(self, h, others) ==
    merge_others([copy(self) EXCEPT !.tmp_definitions = others[1].tmp_definitions,
                                    !.tmp_uses = others[1].tmp_uses],
                 h, others)

\* self.merge(*others); `others` is the sequence of the other states.
merge(self, h, others) == merge_others(copy(self), h, others)

\* set_object() moved under `if current_defs:`
kill_and_add_register_definition_indented(s, atom, code_loc, data, id) ==
    LET current_defs == get_objects_by_offset(s.register_definitions, atom.offset)
        uses == UNION {Uses_get_current_uses(s.register_uses, d) : d \in current_defs}
        dead == IF current_defs # {} /\ uses = {}
                THEN s.dead_virgin_definitions \cup current_defs
                ELSE s.dead_virgin_definitions
        definition == Definition(id, atom, code_loc, data)
    IN [s EXCEPT !.dead_virgin_definitions = dead,
                 !.register_definitions =
                     IF current_defs # {}
                     THEN set_object(@, atom.offset, definition, atom.size)
                     ELSE @]

kill_and_add_register_definition(s, atom, code_loc, data, id) ==
    LET current_defs == get_objects_by_offset(s.register_definitions, atom.offset)
        uses == UNION {Uses_get_current_uses(s.register_uses, d) : d \in current_defs}
        dead == IF current_defs # {} /\ uses = {}
                THEN s.dead_virgin_definitions \cup current_defs
                ELSE s.dead_virgin_definitions
        definition == Definition(id, atom, code_loc, data)
    IN [s EXCEPT !.dead_virgin_definitions = dead,
                 !.register_definitions =
                     set_object(@, atom.offset, definition, atom.size)]

\* the memory definition with the tracking of the register definition
kill_and_add_memory_definition_tracked(s, atom, code_loc, data, id) ==
    LET current_defs == get_objects_by_offset(s.memory_definitions, atom.offset)
        definition == Definition(id, atom, code_loc, data)
    IN [s EXCEPT !.dead_virgin_definitions = @ \cup current_defs,
                 !.memory_definitions =
                     set_object(@, atom.offset, definition, atom.size)]

kill_and_add_memory_definition(s, atom, code_loc, data, id) ==
    LET definition == Definition(id, atom, code_loc, data)
    IN [s EXCEPT !.memory_definitions =
                     set_object(@, atom.offset, definition, atom.size)]

add_tmp_definition(s, atom, code_loc) ==
    [s EXCEPT !.tmp_definitions = MapPut(@, atom.offset, <<atom, code_loc>>)]

kill_and_add_definition(s, atom, code_loc, data, id) ==
    CASE atom.kind = "reg" -> kill_and_add_register_definition(s, atom, code_loc, data, id)
      [] atom.kind = "mem" -> kill_and_add_memory_definition(s, atom, code_loc, data, id)
      [] atom.kind = "tmp" -> add_tmp_definition(s, atom, code_loc)

RECURSIVE add_uses(_, _, _, _)
add_uses(u, h, defs, code_loc) ==
    IF defs = {}
    THEN [u |-> u, h |-> h]
    ELSE LET d == FirstDef(defs)
             r == Uses_add_use(u, h, d, code_loc)
         IN add_uses(r.u, r.h, defs \ {d}, code_loc)

\* the use recorded on every register definition, covering or not
add_register_use_all(s, h, atom, code_loc) ==
    LET current_defs == {e.obj : e \in s.register_definitions}
        r == add_uses(s.register_uses, h, current_defs, code_loc)
    IN [s |-> [s EXCEPT !.register_uses = r.u], h |-> r.h]

add_register_use(s, h, atom, code_loc) ==
    LET current_defs == get_objects_by_offset(s.register_definitions, atom.offset)
        r == add_uses(s.register_uses, h, current_defs, code_loc)
    IN [s |-> [s EXCEPT !.register_uses = r.u], h |-> r.h]

add_memory_use(s, h, atom, code_loc) ==
    LET current_defs == get_objects_by_offset(s.memory_definitions, atom.offset)
        r == add_uses(s.memory_uses, h, current_defs, code_loc)
    IN [s |-> [s EXCEPT !.memory_uses = r.u], h |-> r.h]

\* tmp_uses[tmp_idx].add((code_loc, current_def)); the caller guards against
\* the KeyError of an undefined temporary.
add_tmp_use(s, h, atom, code_loc) ==
    LET current_def == s.tmp_definitions[atom.offset]
        cell == CellOf(s.tmp_uses, h, atom.offset)
    IN [s |-> [s EXCEPT !.tmp_uses = MapPut(@, atom.offset, cell)],
        h |-> HeapAdd(h, cell, <<code_loc, current_def>>)]

add_use(s, h, atom, code_loc) ==
    CASE atom.kind = "reg" -> add_register_use(s, h, atom, code_loc)
      [] atom.kind = "mem" -> add_memory_use(s, h, atom, code_loc)
      [] atom.kind = "tmp" -> add_tmp_use(s, h, atom, code_loc)

\* ------------------------------------------------- SimEngineRD (VEX rules)
\* The union of the data of a set of definitions, as _handle_Get and
\* _handle_Load collect it.
UnitedData(defs) == UNION {d.data.data : d \in defs}

\* PUT(reg_offset) = data, where the data expression has `bits` bits.
handle_Put(s, reg_offset, bits, data, code_loc, id) ==
    kill_and_add_definition(s, Register(reg_offset, bits \div 8), code_loc, data, id)

\* GET(reg_offset) of a type of `bits` bits: the value and the state with the
\* use recorded.
handle_Get(s, h, reg_offset, bits, code_loc) ==
    With(UnitedData(get_objects_by_offset(s.register_definitions, reg_offset)),
         LAMBDA data :
             With(add_use(s, h, Register(reg_offset, bits), code_loc),
                  LAMBDA r :
                      [value |-> DataSet(IF data = {} THEN {Undefined} ELSE data, bits),
                       s |-> r.s,
                       h |-> r.h]))

\* ------------------------------------------------------ VEX blocks (pyvex)
\* The IR is flat: the operands of a statement or of an expression are
\* constants and temporaries.
Const(value) == <<"Const", value>>
RdTmp(tmp) == <<"RdTmp", tmp>>
NoArg == <<"None", 0>>

\* Expressions: an operand, GET(offset), ITE(cond, iftrue, iffalse),
\* LDle(addr) and the operations iop(arg) and iop(arg0, arg1).
Operand(a) == [op |-> a[1], iop |-> "", n |-> a[2], args |-> <<NoArg, NoArg, NoArg>>]
Get(offset) == [op |-> "Get", iop |-> "", n |-> offset, args |-> <<NoArg, NoArg, NoArg>>]
ITE(cond, iftrue, iffalse) ==
    [op |-> "ITE", iop |-> "", n |-> 0, args |-> <<cond, iftrue, iffalse>>]
Load(addr) == [op |-> "Load", iop |-> "", n |-> 0, args |-> <<addr, NoArg, NoArg>>]
Unop(iop, arg) == [op |-> "Unop", iop |-> iop, n |-> 0, args |-> <<arg, NoArg, NoArg>>]
Binop(iop, arg0, arg1) ==
    [op |-> "Binop", iop |-> iop, n |-> 0, args |-> <<arg0, arg1, NoArg>>]
NoExpr == Operand(NoArg)

\* Statements.  `bits` is the size of the type of the data expression,
\* result_size(tyenv).
IMark(addr) == [tag |-> "IMark", n |-> addr, bits |-> 0, addr |-> NoExpr, data |-> NoExpr]
Put(offset, data, bits) == [tag |-> "Put", n |-> offset, bits |-> bits, addr |-> NoExpr, data |-> data]
WrTmp(tmp, data, bits) == [tag |-> "WrTmp", n |-> tmp, bits |-> bits, addr |-> NoExpr, data |-> data]
Store(addr, data, bits) == [tag |-> "Store", n |-> 0, bits |-> bits, addr |-> addr, data |-> data]
\* if (guard) STle(addr) = data
StoreG(addr, data, guard, bits) ==
    [tag |-> "StoreG", n |-> 0, bits |-> bits, addr |-> addr, data |-> data,
     guard |-> guard]
\* what follows the last statement of a block
NoStmt == [tag |-> "None", n |-> 0, bits |-> 0, addr |-> NoExpr, data |-> NoExpr]

\* AIL expressions: a constant, a temporary and a register of `bits` bits
ailment_Const(value, bits) == [type |-> "Const", n |-> value, bits |-> bits]
ailment_Tmp(tmp_idx) == [type |-> "Tmp", n |-> tmp_idx, bits |-> 0]
ailment_Register(reg_offset, bits) == [type |-> "Register", n |-> reg_offset, bits |-> bits]

\* AIL statements, each with the address of its instruction.  The calling
\* convention of a Call is given by its CALLER_SAVED_REGS.
Assignment(ins_addr, dst, src) ==
    [tag |-> "Assignment", ins_addr |-> ins_addr, dst |-> dst, src |-> src,
     CALLER_SAVED_REGS |-> {}]
Call(ins_addr, target, CALLER_SAVED_REGS) ==
    [tag |-> "Call", ins_addr |-> ins_addr, dst |-> target, src |-> target,
     CALLER_SAVED_REGS |-> CALLER_SAVED_REGS]
Jump(ins_addr, target) ==
    [tag |-> "Jump", ins_addr |-> ins_addr, dst |-> target, src |-> target,
     CALLER_SAVED_REGS |-> {}]

ConditionalJump(ins_addr, condition, true_target, false_target) ==
    [tag |-> "ConditionalJump", ins_addr |-> ins_addr, condition |-> condition,
     true_target |-> true_target, false_target |-> false_target,
     CALLER_SAVED_REGS |-> {}]

AilTags == {"Assignment", "Call", "Jump", "ConditionalJump"}

OP_BEFORE == 0
OP_AFTER == 1

\* ----------------------------------------------- SimEngineRD on a VEX block
\* A context `c` holds what the handlers of one statement read and write:
\* the engine's state, tmps, stmt_idx and ins_addr, the block's address, the
\* set objects (h), the next Definition identity, and the analysis'
\* observed_results; `observed` collects the keys recorded by the statement.

\* a Python bool, as the comparison handlers return it
PyBool(b) == [data |-> {[t |-> "bool", v |-> b, w |-> 0]}, bits |-> 0]
\* Python's None, as _expr returns it for what it does not support
PyNone == [data |-> {[t |-> "None", v |-> 0, w |-> 0]}, bits |-> 0]
\* a value of Python that is no DataSet: None or a bool
IsPyObject(value) == value \in {PyNone, PyBool(0), PyBool(1)}


\* An exception that is no SimEngineError leaves process(); the context
\* records it in `raised` and the handlers do nothing more.
raise(c, exception) == [c EXCEPT !.raised = exception]

codeloc(c) == <<c.block_addr, c.stmt_idx>>

handle_Const(value, bits) == DataSet({IntVal(value)}, bits)

handle_RdTmp(c, tmp, bits) ==
    IF tmp \in DOMAIN c.tmps THEN c.tmps[tmp] ELSE DataSet({Undefined}, bits)

expr_operand(c, a, bits) ==
    IF a[1] = "Const" THEN handle_Const(a[2], bits) ELSE handle_RdTmp(c, a[2], bits)

handle_ITE(c, e, bits) ==
    LET cond == expr_operand(c, e.args[1], 1)
    IN IF cond = PyBool(1) THEN expr_operand(c, e.args[2], bits)
       ELSE IF cond = PyBool(0) THEN expr_operand(c, e.args[3], bits)
       ELSE DataSet(expr_operand(c, e.args[2], bits).data
                        \cup expr_operand(c, e.args[3], bits).data, bits)

\* The loader's memory (cle): the bytes of the binary, by address.
loader_memory == [a \in 1 .. 4 |-> a]

\* loader.memory.read_bytes(a, size): the bytes from address a on, up to the
\* first address that is not backed
RECURSIVE read_bytes(_, _)
read_bytes(a, size) ==
    IF size = 0 \/ a \notin DOMAIN loader_memory
    THEN <<>>
    ELSE <<loader_memory[a]>> \o read_bytes(a + 1, size - 1)

\* struct.unpack of an unsigned integer of Len(mem) bytes
RECURSIVE unpack(_, _)
unpack(endness, mem) ==
    IF mem = <<>>
    THEN 0
    ELSE IF endness = "Iend_LE"
         THEN mem[1] + 256 * unpack(endness, Tail(mem))
         ELSE mem[Len(mem)] + 256 * unpack(endness, SubSeq(mem, 1, Len(mem) - 1))

\* what a Load from address a adds to its data: the data of the definitions
\* at a, or else the integer the binary holds there
Load_data(s, a, size) ==
    IF get_objects_by_offset(s.memory_definitions, a) # {}
    THEN UnitedData(get_objects_by_offset(s.memory_definitions, a))
    ELSE IF /\ read_bytes(a, size) # <<>>
            /\ size \in {4, 8}
            /\ size = Len(read_bytes(a, size))
         THEN {IntVal(unpack(arch.memory_endness, read_bytes(a, size)))}
         ELSE {}

\* the Load that reads the definitions of every member of the address set
\* and records no use
handle_Load_unused(s, h, addrs, size, code_loc, data) ==
    [data |-> data \cup UNION {Load_data(s, a.v, size) : a \in addrs \ {Undefined}},
     s |-> s, h |-> h]

\* `for a in addr`: the data collected and the uses recorded
RECURSIVE handle_Load_each(_, _, _, _, _, _)
handle_Load_each(s, h, addrs, size, code_loc, data) ==
    IF addrs = {}
    THEN [data |-> data, s |-> s, h |-> h]
    ELSE LET a == CHOOSE x \in addrs : TRUE
         IN IF a = Undefined
            THEN handle_Load_each(s, h, addrs \ {a}, size, code_loc, data)
            ELSE With(add_use(s, h, MemoryLocation(a.v, size), code_loc),
                      LAMBDA r :
                          handle_Load_each(r.s, r.h, addrs \ {a}, size, code_loc,
                                           data \cup Load_data(s, a.v, size)))

\* LDle(addr) of a type of `bits` bits
handle_Load(s, h, addr, bits, code_loc) ==
    With(handle_Load_each(s, h, addr.data, bits \div 8, code_loc, {}),
         LAMBDA r :
             [value |-> DataSet(IF r.data = {} THEN {Undefined} ELSE r.data, bits),
              s |-> r.s,
              h |-> r.h])

\* engines/vex/irop.py: the attributes of the unary operations
vex_operations ==
    [iop \in {"Iop_16to8", "Iop_8Uto16", "Iop_Not1", "Iop_Clz"} |->
         CASE iop = "Iop_16to8" -> [conversion |-> TRUE, to_size |-> 8]
           [] iop = "Iop_8Uto16" -> [conversion |-> TRUE, to_size |-> 16]
           [] OTHER -> [conversion |-> FALSE, to_size |-> 1]]

\* the member a of the operand after the conversion to `bits` bits
Converted(a, bits) ==
    CASE a.t = "int" -> IntVal(a.v % (2 ^ bits))
      [] a.t = "Parameter(Register)" -> [a EXCEPT !.w = bits \div 8]
      [] a.t = "Parameter(SpOffset)" -> [a EXCEPT !.w = bits]
      [] OTHER -> a

\* The objects after the assignment to a.value.size or a.value.bits that
\* turns the Parameter a into b.  The Register held by a Parameter is the
\* atom of the definition that _init_func made with it.
set_attr(c, a, b) ==
    LET data(ds) == [ds EXCEPT !.data = {IF x = a THEN b ELSE x : x \in @}]
        definition(d) ==
            [d EXCEPT !.data = data(@),
                      !.atom = IF /\ a.t = "Parameter(Register)"
                                  /\ d.codeloc = NoCodeLoc
                                  /\ @ = Register(a.v, a.w)
                               THEN Register(b.v, b.w)
                               ELSE @]
        region(r) == {[e EXCEPT !.obj = definition(@)] : e \in r}
        uses(u) ==
            [uses_by_definition |->
                 [k \in {definition(d) : d \in DOMAIN u.uses_by_definition} |->
                      u.uses_by_definition[CHOOSE d \in DOMAIN u.uses_by_definition :
                                               definition(d) = k]],
             current_uses |-> region(u.current_uses)]
        state(s) ==
            [s EXCEPT !.register_definitions = region(@),
                      !.memory_definitions = region(@),
                      !.register_uses = uses(@),
                      !.memory_uses = uses(@),
                      !.dead_virgin_definitions = {definition(d) : d \in @}]
    IN [c EXCEPT !.state = state(@),
                 !.tmps = [t \in DOMAIN @ |-> data(@[t])],
                 !.observed_results = [k \in DOMAIN @ |-> state(@[k])]]

\* `for a in arg_0`: the converted members and the context with the
\* Parameters among them rewritten
RECURSIVE handle_Conversion_each(_, _, _, _)
handle_Conversion_each(c, members, bits, data) ==
    IF members = {}
    THEN [data |-> data, c |-> c]
    ELSE LET a == CHOOSE x \in members : TRUE
         IN handle_Conversion_each(set_attr(c, a, Converted(a, bits)),
                                   members \ {a}, bits,
                                   data \cup {Converted(a, bits)})

\* a conversion to to_size bits, in an expression of a type of `bits` bits
handle_Conversion(c, e, bits) ==
    With(handle_Conversion_each(c, expr_operand(c, e.args[1], bits).data,
                                vex_operations[e.iop].to_size, {}),
         LAMBDA r : [value |-> DataSet(r.data, bits), c |-> r.c])

handle_Not1(c, e, bits) ==
    With(expr_operand(c, e.args[1], bits),
         LAMBDA expr_0 :
             IF Cardinality(expr_0.data) = 1 /\ \A e0 \in expr_0.data : e0.t = "int"
             THEN PyBool(IF expr_0.data = {IntVal(1)} THEN 0 ELSE 1)
             ELSE DataSet({[t |-> "bool", v |-> 0, w |-> 0],
                           [t |-> "bool", v |-> 1, w |-> 0]}, bits))

\* SimEngineLightVEX._handle_Unop
handle_Unop(c, e, bits) ==
    IF vex_operations[e.iop].conversion
    THEN handle_Conversion(c, e, bits)
    ELSE IF e.iop = "Iop_Not1"
    THEN [value |-> handle_Not1(c, e, bits), c |-> c]
    ELSE [value |-> PyNone, c |-> c]

\* the shift of a non-negative number and of a negative one alike
Sar_pair_logical(e0, e1, size) ==
    IF e0 = Undefined \/ e1 = Undefined \/ ~IsInt(e0) \/ ~IsInt(e1)
    THEN Undefined
    ELSE IntVal(e0.v \div (2 ^ e1.v))

\* the member that _handle_Sar adds for the pair (e0, e1): a negative shift
\* count raises the ValueError, a member that is no integer the TypeError
Sar_pair(e0, e1, size) ==
    IF e0 = Undefined \/ e1 = Undefined \/ ~IsInt(e0) \/ ~IsInt(e1)
    THEN Undefined
    ELSE IF e0.v \div (2 ^ (size - 1)) = 0
         THEN IntVal(e0.v \div (2 ^ e1.v))
         ELSE IF size - e1.v < 0
              THEN Undefined
              ELSE IntVal(bitwise("or_", ((2 ^ e1.v) - 1) * (2 ^ (size - e1.v)),
                                  e0.v \div (2 ^ e1.v)))

handle_Sar(expr_0, expr_1, size) ==
    DataSet({Sar_pair(e0, e1, size) : e0 \in expr_0.data, e1 \in expr_1.data}, size)

\* _handle_CmpEQ: a Python bool for two single integers
handle_CmpEQ(expr_0, expr_1, bits) ==
    IF /\ Cardinality(expr_0.data) = 1 /\ Cardinality(expr_1.data) = 1
       /\ \A e0 \in expr_0.data : e0.t = "int"
       /\ \A e1 \in expr_1.data : e1.t = "int"
    THEN PyBool(IF expr_0.data = expr_1.data THEN 1 ELSE 0)
    ELSE DataSet({[t |-> "bool", v |-> 0, w |-> 0],
                  [t |-> "bool", v |-> 1, w |-> 0]}, bits)

\* the two operands are single integers
SingleInts(expr_0, expr_1) ==
    /\ Cardinality(expr_0.data) = 1 /\ Cardinality(expr_1.data) = 1
    /\ \A e0 \in expr_0.data : e0.t = "int"
    /\ \A e1 \in expr_1.data : e1.t = "int"

\* DataSet({True, False}, bits)
TrueFalse(bits) ==
    DataSet({[t |-> "bool", v |-> 0, w |-> 0], [t |-> "bool", v |-> 1, w |-> 0]}, bits)

handle_CmpNE(expr_0, expr_1, bits) ==
    IF SingleInts(expr_0, expr_1)
    THEN PyBool(IF expr_0.data # expr_1.data THEN 1 ELSE 0)
    ELSE TrueFalse(bits)

\* _handle_CmpLT, which no branch of _handle_Binop leads to
handle_CmpLT(expr_0, expr_1, bits) ==
    IF SingleInts(expr_0, expr_1)
    THEN PyBool(IF \E e0 \in expr_0.data, e1 \in expr_1.data : e0.v < e1.v THEN 1 ELSE 0)
    ELSE TrueFalse(bits)

handle_CmpORD(expr_0, expr_1, bits) ==
    IF SingleInts(expr_0, expr_1)
    THEN LET e0 == CHOOSE x \in expr_0.data : TRUE
             e1 == CHOOSE x \in expr_1.data : TRUE
         IN DataSet({IntVal(IF e0.v < e1.v THEN 8 ELSE IF e0.v > e1.v THEN 4 ELSE 2)}, bits)
    ELSE TrueFalse(bits)

\* SimEngineLightVEX._handle_Binop on two DataSets: the handler is chosen by
\* the name of the operation
handle_Binop(c, e, bits) ==
    With(expr_operand(c, e.args[1], bits),
         LAMBDA expr_0 :
             With(expr_operand(c, e.args[2], bits),
                  LAMBDA expr_1 :
                      CASE e.iop = "Iop_And" -> bin_op(expr_0, expr_1, "and_")
                        [] e.iop = "Iop_Or" -> bin_op(expr_0, expr_1, "or_")
                        [] e.iop = "Iop_Add" -> bin_op(expr_0, expr_1, "add")
                        [] e.iop = "Iop_Sub" -> bin_op(expr_0, expr_1, "sub")
                        [] e.iop = "Iop_Xor" -> bin_op(expr_0, expr_1, "xor")
                        [] e.iop \in {"Iop_Shl", "Iop_Sal"} ->
                               bin_op(expr_0, expr_1, "lshift")
                        [] e.iop = "Iop_Shr" -> bin_op(expr_0, expr_1, "rshift")
                        [] e.iop = "Iop_Sar" -> handle_Sar(expr_0, expr_1, bits)
                        [] e.iop = "Iop_CmpEQ" -> handle_CmpEQ(expr_0, expr_1, bits)
                        [] e.iop = "Iop_CmpNE" -> handle_CmpNE(expr_0, expr_1, bits)
                        [] e.iop = "Iop_CmpORD" -> handle_CmpORD(expr_0, expr_1, bits)
                        [] OTHER -> PyNone))

\* _expr: the value of the expression and the context after its evaluation
expr(c, e, bits) ==
    CASE e.op = "Get" ->
             With(handle_Get(c.state, c.h, e.n, bits, codeloc(c)),
                  LAMBDA r : [value |-> r.value,
                              c |-> [c EXCEPT !.state = r.s, !.h = r.h]])
      [] e.op = "Load" ->
             With(handle_Load(c.state, c.h, expr_operand(c, e.args[1], bits),
                              bits, codeloc(c)),
                  LAMBDA r : [value |-> r.value,
                              c |-> [c EXCEPT !.state = r.s, !.h = r.h]])
      [] e.op = "Unop" -> handle_Unop(c, e, bits)
      [] e.op = "Binop" -> [value |-> handle_Binop(c, e, bits), c |-> c]
      [] e.op = "ITE" -> [value |-> handle_ITE(c, e, bits), c |-> c]
      [] OTHER -> [value |-> expr_operand(c, <<e.op, e.n>>, bits), c |-> c]

\* the store confined to one member of the address set
handle_Store_first(s, addr, bits, data, code_loc, id) ==
    LET a == CHOOSE x \in addr.data : TRUE
    IN IF a = Undefined
       THEN [s |-> s, id |-> id]
       ELSE [s |-> kill_and_add_definition(s, MemoryLocation(a.v, bits \div 8),
                                           code_loc, data, id),
             id |-> id + 1]

\* `for a in addr`: the members of the address set in the set's iteration
\* order
RECURSIVE handle_Store_each(_, _, _, _, _, _)
handle_Store_each(s, addrs, size, data, code_loc, id) ==
    IF addrs = {}
    THEN [s |-> s, id |-> id]
    ELSE LET a == CHOOSE x \in addrs : TRUE
         IN IF a = Undefined
            THEN handle_Store_each(s, addrs \ {a}, size, data, code_loc, id)
            ELSE handle_Store_each(
                     kill_and_add_definition(s, MemoryLocation(a.v, size),
                                             code_loc, data, id),
                     addrs \ {a}, size, data, code_loc, id + 1)

\* STle(addr) = data: the state and the next Definition identity
handle_Store(s, addr, bits, data, code_loc, id) ==
    handle_Store_each(s, addr.data, bits \div 8, data, code_loc, id)

\* observe without the conditions on a VEX statement
observe_every(c, observation_points, stmt, ob_type, last) ==
    IF <<c.ins_addr, ob_type>> \in observation_points
    THEN [c EXCEPT !.observed_results =
                       MapPut(@, <<c.ins_addr, ob_type>>, copy(c.state)),
                   !.observed = @ \cup {<<c.ins_addr, ob_type>>}]
    ELSE c

\* ReachingDefinitionAnalysis.observe; `last` tells that the VEX statement is
\* the last of its block or that an IMark follows it.
observe(c, observation_points, stmt, ob_type, last) ==
    IF /\ <<c.ins_addr, ob_type>> \in observation_points
       /\ \/ stmt.tag \in AilTags
          \/ ob_type = OP_BEFORE /\ stmt.tag = "IMark"
          \/ ob_type = OP_AFTER /\ last
    THEN [c EXCEPT !.observed_results =
                       MapPut(@, <<c.ins_addr, ob_type>>, copy(c.state)),
                   !.observed = @ \cup {<<c.ins_addr, ob_type>>}]
    ELSE c

\* SimEngineLightVEX._handle_Stmt: the handler named after the statement
\* _handle_Store on the statement: the address, the data, the store
\* `for a in addr` on what is no DataSet, and `DataSet.undefined in data` at
\* the first address that is not Undefined, are TypeErrors of Python
handle_Store_Stmt(c, stmt) ==
    With(expr(c, stmt.addr, stmt.bits),
         LAMBDA addr :
             With(expr(addr.c, stmt.data, stmt.bits),
                  LAMBDA data :
                      IF IsPyObject(addr.value)
                      THEN raise(data.c, "TypeError")
                      ELSE IF IsPyObject(data.value)
                      THEN IF addr.value.data \subseteq {Undefined}
                           THEN data.c
                           ELSE raise(data.c, "TypeError")
                      ELSE With(handle_Store(data.c.state, addr.value, stmt.bits,
                                             data.value, codeloc(c), c.nextDef),
                                LAMBDA r : [data.c EXCEPT !.state = r.s,
                                                          !.nextDef = r.id])))

\* _handle_StoreG storing whatever the guard is
handle_StoreG_unguarded(c, stmt) == handle_Store_Stmt(c, stmt)

\* _handle_StoreG: `guard is True` holds for the Python bool only
handle_StoreG(c, stmt) ==
    With(expr(c, stmt.guard, 1),
         LAMBDA guard :
             IF guard.value = PyBool(1)
             THEN handle_Store_Stmt(guard.c, stmt)
             ELSE guard.c)

\* _handle_Put on the statement: `DataSet.undefined in data` is a TypeError
\* of Python when data is None or a bool
handle_Put_Stmt(c, stmt) ==
    With(expr(c, stmt.data, stmt.bits),
         LAMBDA data :
             IF IsPyObject(data.value)
             THEN raise(data.c, "TypeError")
             ELSE [data.c EXCEPT
                      !.state = handle_Put(@, stmt.n, stmt.bits, data.value,
                                           codeloc(c), c.nextDef),
                      !.nextDef = @ + 1])

handle_Stmt_dispatch(c, stmt) ==
    CASE stmt.tag = "Put" -> handle_Put_Stmt(c, stmt)
      [] stmt.tag = "WrTmp" ->
             With(expr(c, stmt.data, stmt.bits),
                  LAMBDA data :
                      IF data.value = PyNone
                      THEN data.c
                      ELSE [data.c EXCEPT !.tmps = MapPut(@, stmt.n, data.value)])
      [] stmt.tag = "Store" -> handle_Store_Stmt(c, stmt)
      [] stmt.tag = "StoreG" -> handle_StoreG(c, stmt)
      [] OTHER -> c

\* SimEngineRD._handle_Stmt
handle_Stmt(c, observation_points, stmt, last) ==
    With(handle_Stmt_dispatch(observe(c, observation_points, stmt, OP_BEFORE, last),
                              stmt),
         LAMBDA handled :
             IF handled.raised # ""
             THEN handled
             ELSE observe(handled, observation_points, stmt, OP_AFTER, last))

\* one round of the loop of _process_Stmt, on statement number stmt_idx
process_Stmt(c, observation_points, stmt, last) ==
    handle_Stmt([c EXCEPT !.ins_addr = IF stmt.tag = "IMark" THEN stmt.n ELSE @,
                          !.observed = {}],
                observation_points, stmt, last)

\* _process_Stmt from statement number i of the block on
RECURSIVE process_Stmts(_, _, _, _)
process_Stmts(c, observation_points, statements, i) ==
    IF i > Len(statements)
    THEN c
    ELSE With(process_Stmt([c EXCEPT !.stmt_idx = i - 1],
                           observation_points, statements[i],
                           i = Len(statements) \/ statements[i + 1].tag = "IMark"),
              LAMBDA r :
                  IF r.raised # ""
                  THEN r
                  ELSE process_Stmts([r EXCEPT !.observed = c.observed \cup r.observed],
                                     observation_points, statements, i + 1))

\* SimEngineRD.process / SimEngineLightVEX._process
process(c, observation_points, statements) ==
    [process_Stmts([c EXCEPT !.tmps = EmptyMap, !.observed = {}],
                   observation_points, statements, 1)
         EXCEPT !.stmt_idx = None, !.ins_addr = None]

\* ------------------------------------------------ SimEngineRD (AIL rules)
\* The values of AIL expressions are no DataSets: the Const expression
\* itself, an SpOffset, or None.
AilNone == [t |-> "None", v |-> 0, w |-> 0]

\* _ail_handle_Tmp
ail_handle_Tmp(c, e) ==
    With(IF ~c.track_tmps
         THEN c
         ELSE IF e.n \in DOMAIN c.state.tmp_definitions
              THEN With(add_use(c.state, c.h, Tmp(e.n), codeloc(c)),
                        LAMBDA r : [c EXCEPT !.state = r.s, !.h = r.h])
              ELSE raise(c, "KeyError"),
         LAMBDA used :
             [value |-> IF e.n \in DOMAIN c.tmps THEN c.tmps[e.n] ELSE AilNone,
              c |-> used])

\* _ail_handle_Register: the stack and the base pointer are SpOffsets; for
\* any other register `DataSet(set(), bits)` is built first, whose
\* constructor asserts len(data) >= 1
ail_handle_Register(c, e) ==
    With(add_use(c.state, c.h, Register(e.n, e.bits \div 8), codeloc(c)),
         LAMBDA r :
             With([c EXCEPT !.state = r.s, !.h = r.h],
                  LAMBDA used :
                      IF e.n = arch.sp_offset
                      THEN [value |-> SpOffset(e.bits, 0), c |-> used]
                      ELSE IF e.n = arch.bp_offset
                           THEN [value |-> [SpOffset(e.bits, 0) EXCEPT !.t = "SpOffset(is_base)"],
                                 c |-> used]
                           ELSE [value |-> AilNone,
                                 c |-> raise(used, "AssertionError: len(data) >= 1")]))

\* SimEngineLightAIL._expr
ail_expr(c, e) ==
    CASE e.type = "Const" -> [value |-> [t |-> "Const", v |-> e.n, w |-> e.bits], c |-> c]
      [] e.type = "Tmp" -> ail_handle_Tmp(c, e)
      [] e.type = "Register" -> ail_handle_Register(c, e)
      [] OTHER -> [value |-> AilNone, c |-> c]

\* `type(data) is DataSet`, the assertion of Definition.__init__
IsDataSet(data) == "data" \in DOMAIN data

\* _ail_handle_Assignment: kill_and_add_definition on a register comes to
\* the assertion of Definition after the dead-virgin definitions were noted
ail_handle_Assignment(c, stmt) ==
    With(ail_expr(c, stmt.src),
         LAMBDA src :
             IF src.c.raised # ""
             THEN src.c
             ELSE IF stmt.dst.type = "Tmp"
                  THEN [src.c EXCEPT
                           !.state = kill_and_add_definition(@, Tmp(stmt.dst.n), codeloc(c),
                                                             src.value, c.nextDef),
                           !.tmps = MapPut(@, stmt.dst.n, src.value)]
                  ELSE IF stmt.dst.type = "Register"
                       THEN With(kill_and_add_definition(
                                     src.c.state,
                                     Register(stmt.dst.n, stmt.dst.bits \div 8),
                                     codeloc(c), src.value, c.nextDef),
                                 LAMBDA killed :
                                     IF IsDataSet(src.value)
                                     THEN [src.c EXCEPT !.state = killed,
                                                        !.nextDef = @ + 1]
                                     ELSE raise([src.c EXCEPT
                                                    !.state.dead_virgin_definitions =
                                                        killed.dead_virgin_definitions],
                                                "AssertionError: type(data) is DataSet"))
                       ELSE src.c)

\* _ail_handle_Call: `self.state.kill_definitions(ip, self._codeloc())` gives
\* two of the three arguments of kill_definitions(atom, code_loc, data)
ail_handle_Call(c, stmt) ==
    With(ail_expr(c, stmt.src),
         LAMBDA target :
             IF target.c.raised # ""
             THEN target.c
             ELSE raise(target.c, "TypeError: kill_definitions() takes exactly 4 arguments"))

\* _ail_handle_Jump
ail_handle_Jump(c, stmt) == ail_expr(c, stmt.src).c

\* _ail_handle_ConditionalJump: the condition and the two targets, then
\* kill_definitions with two of its three arguments
ail_handle_ConditionalJump(c, stmt) ==
    With(ail_expr(c, stmt.condition),
         LAMBDA cond :
             IF cond.c.raised # ""
             THEN cond.c
             ELSE With(ail_expr(cond.c, stmt.true_target),
                       LAMBDA true_target :
                           IF true_target.c.raised # ""
                           THEN true_target.c
                           ELSE With(ail_expr(true_target.c, stmt.false_target),
                                     LAMBDA false_target :
                                         IF false_target.c.raised # ""
                                         THEN false_target.c
                                         ELSE raise(false_target.c,
                                                    "TypeError: kill_definitions() takes exactly 4 arguments"))))

\* SimEngineLightAIL._ail_handle_Stmt
ail_handle_Stmt_dispatch(c, stmt) ==
    CASE stmt.tag = "Assignment" -> ail_handle_Assignment(c, stmt)
      [] stmt.tag = "Call" -> ail_handle_Call(c, stmt)
      [] stmt.tag = "Jump" -> ail_handle_Jump(c, stmt)
      [] stmt.tag = "ConditionalJump" -> ail_handle_ConditionalJump(c, stmt)
      [] OTHER -> c

\* SimEngineRD._ail_handle_Stmt
ail_handle_Stmt(c, observation_points, stmt) ==
    With(ail_handle_Stmt_dispatch(observe(c, observation_points, stmt, OP_BEFORE, FALSE),
                                  stmt),
         LAMBDA handled :
             IF handled.raised # ""
             THEN handled
             ELSE observe(handled, observation_points, stmt, OP_AFTER, FALSE))

\* one round of the loop of SimEngineLightAIL._process_Stmt
ail_process_Stmt(c, observation_points, stmt) ==
    ail_handle_Stmt([c EXCEPT !.ins_addr = stmt.ins_addr, !.observed = {}],
                    observation_points, stmt)

\* ------------------------------------------------- SimEngineRD.process
\* SimEngineLightVEX._hl_handle_Call, which SimEngineRD does not override
hl_handle_Call(c, arg) ==
    raise([c EXCEPT !.hl_calls = @ + 1], "NotImplementedError")

\* the last round of the loop of _process_Stmt and what follows the loop
process_Stmt_last(c, observation_points, stmt, jumpkind) ==
    With(process_Stmt(c, observation_points, stmt, TRUE),
         LAMBDA r : IF jumpkind = "Ijk_Call" THEN hl_handle_Call(r, stmt) ELSE r)

\* process() never raising again what it caught
process_except_swallowed(e, exception, fail_fast) ==
    [e EXCEPT !.caught = exception, !.stmt = NoStmt]

\* the except clause of process(): a SimEngineError is raised again when
\* fail_fast is True and is swallowed otherwise; any other exception leaves
\* process()
process_except(e, exception, fail_fast) ==
    IF exception = ""
    THEN e
    ELSE IF exception = "SimEngineError"
    THEN [e EXCEPT !.caught = exception,
                   !.raised = IF fail_fast = TRUE THEN exception ELSE "",
                   !.stmt = NoStmt]
    ELSE [e EXCEPT !.raised = exception, !.stmt = NoStmt]

\* ------------------------------------------- SimEngineRD._handle_function
\* The loader (cle) of the binary: the main object holds the addresses 1
\* and 2, address 1 is the PLT stub of puts, and address 3, outside the main
\* object, carries the symbol malloc.
contains_addr(ip_addr) == ip_addr \in {1, 2}
find_plt_stub_name(ip_addr) == IF ip_addr = 1 THEN "puts" ELSE ""
find_symbol(ip_addr) == IF ip_addr = 3 THEN "malloc" ELSE ""

\* l.warning / l.error: the engine keeps the message logged last
log(e, message) == [e EXCEPT !.logged = message]

\* A call of a handler of the function handler object, with the arguments
\* it is given.  The handler is the user's: `ret` is the pair (is_updated,
\* state) that it returns.
invoke(e, handler_name, ip_addr, depth, ret) ==
    [e EXCEPT !.invoked = Append(@, [name |-> handler_name, ip_addr |-> ip_addr,
                                     depth |-> depth,
                                     codeloc |-> IF depth = None
                                                 THEN <<e.block_addr, stmt_idx>>
                                                 ELSE <<>>,
                                     is_updated |-> ret.is_updated,
                                     current_depth |-> e.current_depth,
                                     maximum_depth |-> e.maximum_depth])]

\* `self.state = state` whatever the handler says of is_updated
returned_state_always(e, ret) == [e EXCEPT !.state = ret.state]

\* `if is_updated is True: self.state = state`
returned_state(e, ret) ==
    IF ret.is_updated = TRUE THEN [e EXCEPT !.state = ret.state] ELSE e

\* _handle_function below its check of the depth
handle_function_dispatch(e, ret) ==
    LET defs_ip == get_objects_by_offset(e.state.register_definitions, arch.ip_offset)
        ip_data == (CHOOSE d \in defs_ip : TRUE).data
        ip_addr == (CHOOSE a \in ip_data.data : TRUE)
        is_main == contains_addr(ip_addr.v)
        ext_func_name == IF is_main THEN find_plt_stub_name(ip_addr.v)
                         ELSE find_symbol(ip_addr.v)
        is_internal == is_main /\ ext_func_name = ""
    IN IF Cardinality(defs_ip) # 1
       THEN log(e, "Invalid definition(s) for IP.")
       ELSE IF Cardinality(ip_data.data) # 1
       THEN log(e, "Invalid number of values for IP.")
       ELSE IF ip_addr.t # "int"
       THEN log(e, "Invalid type for IP.")
       ELSE IF ext_func_name # ""
       THEN IF ("handle_" \o ext_func_name) \in e.function_handler
            THEN invoke(e, "handle_" \o ext_func_name, ip_addr.v, None, ret)
            ELSE log(e, "Please implement the external function handler")
       ELSE IF is_internal
       THEN IF "handle_local_function" \in e.function_handler
            THEN returned_state(invoke(e, "handle_local_function", ip_addr.v,
                                       e.current_depth + 1, ret),
                                ret)
            ELSE log(e, "Please implement the local function handler")
       ELSE log(e, "Could not find function name for external function")

\* _handle_function without its check of the depth
handle_function_unbounded(e, ret) == handle_function_dispatch(e, ret)

handle_function(e, ret) ==
    IF e.current_depth > e.maximum_depth
    THEN log(e, "The analysis reached its maximum recursion depth.")
    ELSE handle_function_dispatch(e, ret)

\* the engine, the analysis and the visitor while no analysis is running
NoEngine ==
    [state |-> ReachingDefinitions, tmps |-> EmptyMap, ins_addr |-> None,
     stmt |-> NoStmt, block_addr |-> None, raised |-> "",
     jumpkind |-> "Ijk_Boring", hl_calls |-> 0, caught |-> "",
     current_depth |-> 0, maximum_depth |-> 1, function_handler |-> {},
     invoked |-> <<>>, logged |-> ""]

NoAnalysis ==
    [observation_points |-> {}, observed_results |-> EmptyMap, observed |-> {},
     max_iterations |-> 3, node_iterations |-> EmptyMap,
     init_func |-> FALSE, cc |-> <<>>, track_tmps |-> FALSE, fail_fast |-> FALSE,
     result |-> <<>>, init_state |-> <<>>]

NoVisitor == [graph |-> {}, worklist |-> {}, out_states |-> EmptyMap, runs |-> 0]

\* no plugin is being copied: an empty memo, no call made
NoPlugins ==
    [memo |-> EmptyMap, given |-> EmptyMap, copied |-> EmptyMap, stack |-> <<>>,
     returned |-> <<>>]

\* ------------------------------------------------------------ state objects
\* The ReachingDefinitions objects the operations act on, and the inputs the
\* operations are called with.  Every call is made by one statement, whose
\* index is the code location of the call.
Slots == {"s", "c"}

RegAtoms == {Register(0, 2), Register(0, 1), Register(1, 1)}
MemAtoms == {MemoryLocation(0, 1)}
TmpAtoms == {Tmp(0)}
Atoms == RegAtoms \cup MemAtoms \cup TmpAtoms
Vals == {1, 2}

InitCalls ==
    /\ slots = [x \in Slots |-> ReachingDefinitions]
    /\ heap = <<>>
    /\ nextDef = 1
    /\ stmt_idx = 1
    /\ engine = NoEngine
    /\ analysis = NoAnalysis
    /\ plugins = NoPlugins
    /\ visitor = NoVisitor

\* x.kill_and_add_definition(atom, code_loc, DataSet({v}, atom.size * 8))
KillAndAdd(x, atom, v) ==
    /\ slots' = [slots EXCEPT ![x] =
                    kill_and_add_definition(@, atom, stmt_idx,
                        DataSet({IntVal(v)}, atom.size * 8), nextDef)]
    /\ nextDef' = IF atom.kind = "tmp" THEN nextDef ELSE nextDef + 1
    /\ stmt_idx' = stmt_idx + 1
    /\ UNCHANGED <<heap, runVars>>

\* x.add_use(atom, code_loc); on a temporary that has no definition the call
\* raises KeyError before it changes anything.
AddUse(x, atom) ==
    /\ atom.kind = "tmp" => atom.offset \in DOMAIN slots[x].tmp_definitions
    /\ LET r == add_use(slots[x], heap, atom, stmt_idx)
       IN /\ slots' = [slots EXCEPT ![x] = r.s]
          /\ heap' = r.h
    /\ stmt_idx' = stmt_idx + 1
    /\ UNCHANGED <<nextDef, runVars>>

\* y = x.copy()
Copy(x, y) ==
    /\ x # y
    /\ slots[y] # copy(slots[x])
    /\ slots' = [slots EXCEPT ![y] = copy(slots[x])]
    /\ UNCHANGED <<heap, nextDef, stmt_idx, runVars>>

\* z = x.merge(y)
Merge(x, y, z) ==
    /\ LET r == merge(slots[x], heap, <<slots[y]>>)
       IN /\ slots' = [slots EXCEPT ![z] = r.s]
          /\ heap' = r.h
    /\ UNCHANGED <<nextDef, stmt_idx, runVars>>

\* one more statement, of at most N, calls kill_and_add_definition or add_use
Mutate(X, A, V, N) ==
    \/ \E x \in X, atom \in A, v \in V : stmt_idx <= N /\ KillAndAdd(x, atom, v)
    \/ \E x \in X, atom \in A : stmt_idx <= N /\ AddUse(x, atom)

\* Calls on one state object.
Next == Mutate({"s"}, Atoms, Vals, MaxStmts)

Spec == InitCalls /\ [][Next]_vars

\* copy() and the mutation of either side
CopyAtoms == {Register(0, 1), MemoryLocation(0, 1), Tmp(0)}

NextCopy ==
    \/ Mutate(Slots, CopyAtoms, {1}, MaxStmts)
    \/ \E x \in Slots, y \in Slots : Copy(x, y)

SpecCopy == InitCalls /\ [][NextCopy]_vars

\* merge() of two state objects and the mutation of either
MergeAtoms == {Register(0, 2), Register(0, 1), MemoryLocation(0, 1), Tmp(0)}

NextMerge ==
    \/ Mutate(Slots, MergeAtoms, {1}, MaxMergeStmts)
    \/ \E x \in Slots, y \in Slots, z \in Slots : Merge(x, y, z)

SpecMerge == InitCalls /\ [][NextMerge]_vars

\* ------------------------------------------- one VEX block, by statements
\* The engine processes a block of at most MaxBlockStmts statements, which
\* starts with the IMark of its first instruction.  engine.stmt is the
\* statement number stmt_idx of the block; a step handles it, knowing the
\* statement `next` that follows it (NoStmt after the last one).
MaxBlockStmts == 5

Points == {1, 2} \X {OP_BEFORE, OP_AFTER}
PointSets == {{}, Points} \cup {{p} : p \in Points}

Context ==
    [state |-> engine.state, tmps |-> engine.tmps, ins_addr |-> engine.ins_addr,
     block_addr |-> engine.block_addr, stmt_idx |-> stmt_idx, h |-> heap,
     nextDef |-> nextDef, observed_results |-> analysis.observed_results,
     observed |-> analysis.observed, raised |-> ""]

\* the instruction after the current one
NextInsAddr == IF engine.stmt.tag = "IMark" THEN engine.stmt.n + 1 ELSE engine.ins_addr + 1

NextStmts ==
    {IMark(NextInsAddr)}
        \cup {Put(0, Operand(x), 8) : x \in {Const(1), RdTmp(0)}}
        \cup {WrTmp(0, x, 8) : x \in {Get(0), Operand(Const(0))}}
        \cup {WrTmp(0, ITE(RdTmp(1), x[1], x[2]), 8) :
                  x \in {<<Const(0), Const(1)>>, <<RdTmp(0), RdTmp(1)>>}}
        \cup {Store(Operand(RdTmp(0)), Operand(Const(1)), bits) : bits \in {8, 16}}
        \cup {WrTmp(1, Load(RdTmp(0)), 8), WrTmp(2, Load(RdTmp(0)), 32)}

InitVex ==
    /\ slots = [x \in Slots |-> ReachingDefinitions]
    /\ heap = <<>>
    /\ nextDef = 1
    /\ stmt_idx = 0
    /\ engine = [NoEngine EXCEPT !.stmt = IMark(1), !.block_addr = 1]
    /\ analysis \in {[NoAnalysis EXCEPT !.observation_points = p] : p \in PointSets}
    /\ plugins = NoPlugins
    /\ visitor = NoVisitor

\* the objects after the statement, which left the context c
Handled(c, next) ==
    /\ engine' = process_except([engine EXCEPT
                                    !.state = c.state,
                                    !.tmps = c.tmps,
                                    !.ins_addr = IF next = NoStmt /\ c.raised = ""
                                                 THEN None ELSE c.ins_addr,
                                    !.stmt = next],
                                c.raised, analysis.fail_fast)
    /\ heap' = c.h
    /\ nextDef' = c.nextDef
    /\ analysis' = [analysis EXCEPT !.observed_results = c.observed_results,
                                    !.observed = c.observed]
    /\ stmt_idx' = IF c.raised # "" THEN stmt_idx
                   ELSE IF next = NoStmt THEN None ELSE stmt_idx + 1
    /\ UNCHANGED <<slots, visitor, plugins>>

HandleStmt(next) ==
    /\ engine.stmt # NoStmt
    /\ Handled(process_Stmt(Context, analysis.observation_points, engine.stmt,
                            next = NoStmt \/ next.tag = "IMark"),
               next)

NextVex ==
    \/ \E next \in NextStmts : stmt_idx + 1 < MaxBlockStmts /\ HandleStmt(next)
    \/ HandleStmt(NoStmt)

SpecVex == InitVex /\ [][NextVex]_vars

\* ------------------------------------- the first block of a function
\* The state is built for a function, with init_func set or not and with a
\* calling convention.  In the block, t0 and t3 are 16-bit temporaries, t1
\* is an 8-bit one and t2 a 1-bit one.
CallingConventions ==
    {<<>>, <<SimRegArg("r0", 2)>>, <<SimStackArg(2, 2)>>,
     <<SimRegArg("r0", 2), SimStackArg(2, 2)>>,
     <<SimStackArg(2, 2), SimStackArg(4, 1)>>}

FuncStmts ==
    {IMark(NextInsAddr),
     WrTmp(0, Get(arch.registers["r0"][1]), 16),
     WrTmp(0, Load(Const(arch.initial_sp + 2)), 16),
     WrTmp(1, Unop("Iop_16to8", RdTmp(0)), 8),
     WrTmp(2, Unop("Iop_Not1", RdTmp(1)), 1),
     WrTmp(3, Unop("Iop_8Uto16", RdTmp(1)), 16),
     Put(arch.registers["r1"][1], Operand(RdTmp(3)), 16),
     Put(arch.registers["r0"][1], Operand(RdTmp(1)), 8)}

InitFunc ==
    /\ slots = [x \in Slots |-> ReachingDefinitions]
    /\ heap = <<>>
    /\ stmt_idx = 0
    /\ analysis \in {[NoAnalysis EXCEPT !.observation_points = p,
                                         !.init_func = init_func_set,
                                         !.cc = args] :
                         p \in {{}, {<<1, OP_BEFORE>>}},
                         init_func_set \in BOOLEAN,
                         args \in CallingConventions}
    /\ engine = [NoEngine EXCEPT
                     !.state = new_state(analysis.init_func, analysis.cc, 1, 1),
                     !.stmt = IMark(1),
                     !.block_addr = 1]
    /\ nextDef = IF analysis.init_func THEN 2 + Len(analysis.cc) ELSE 1
    /\ plugins = NoPlugins
    /\ visitor = NoVisitor

NextFunc ==
    \/ \E next \in FuncStmts : stmt_idx + 1 < MaxBlockStmts /\ HandleStmt(next)
    \/ HandleStmt(NoStmt)

SpecFunc == InitFunc /\ [][NextFunc]_vars

\* ------------------------------------------- operations on temporaries
\* The engine is in the middle of a block in which the temporaries t0 and t1
\* were written; its next statements write t2 from an operation on them in
\* a type of MaxBits bits.
MaxBits == 3

Members ==
    {IntVal(n) : n \in 0 .. (2 ^ MaxBits - 1)}
        \cup {Undefined, Parameter(Register(0, 2))}

Operands ==
    {DataSet({x}, MaxBits) : x \in Members}
        \cup {DataSet({IntVal(1), x}, MaxBits) :
                  x \in {IntVal(2 ^ MaxBits - 1), Undefined, Parameter(Register(0, 2))}}

Iops ==
    {"Iop_And", "Iop_Or", "Iop_Add", "Iop_Sub", "Iop_Xor", "Iop_Shl", "Iop_Shr",
     "Iop_Sal", "Iop_Sar", "Iop_Mul"}

OpStmts == {WrTmp(2, Binop(iop, RdTmp(0), RdTmp(1)), MaxBits) : iop \in Iops}

InitOps ==
    /\ slots = [x \in Slots |-> ReachingDefinitions]
    /\ heap = <<>>
    /\ nextDef = 1
    /\ stmt_idx = MaxBlockStmts - 2
    /\ engine \in {[NoEngine EXCEPT !.tmps = MapPut(MapPut(EmptyMap, 0, x), 1, y),
                                     !.ins_addr = 1,
                                     !.stmt = stmt,
                                     !.block_addr = 1] :
                       x \in Operands, y \in Operands, stmt \in OpStmts}
    /\ analysis = NoAnalysis
    /\ plugins = NoPlugins
    /\ visitor = NoVisitor

NextOps ==
    \/ \E next \in OpStmts : stmt_idx + 1 < MaxBlockStmts /\ HandleStmt(next)
    \/ HandleStmt(NoStmt)

SpecOps == InitOps /\ [][NextOps]_vars

\* ------------------------------------------- process() on a VEX block
\* process() on one block whose jumpkind is a call or not, under an analysis
\* with fail_fast set or not; the engine below SimEngineRD may raise a
\* SimEngineError at any statement.
Jumpkinds == {"Ijk_Boring", "Ijk_Call", "Ijk_Ret"}

ProcessStmts ==
    {IMark(NextInsAddr), Put(0, Operand(Const(1)), 8), WrTmp(0, Get(0), 8)}

InitProcess ==
    /\ slots = [x \in Slots |-> ReachingDefinitions]
    /\ heap = <<>>
    /\ nextDef = 1
    /\ stmt_idx = 0
    /\ engine \in {[NoEngine EXCEPT !.stmt = IMark(1), !.block_addr = 1, !.jumpkind = j] :
                       j \in Jumpkinds}
    /\ analysis \in {[NoAnalysis EXCEPT !.observation_points = p, !.fail_fast = f] :
                         p \in {{}, {<<1, OP_AFTER>>}, Points}, f \in BOOLEAN}
    /\ plugins = NoPlugins
    /\ visitor = NoVisitor

ProcessContext ==
    Context @@ [raised |-> "", hl_calls |-> engine.hl_calls]

\* the objects after the last statement and the call hook
HandledLast(c) ==
    /\ engine' = [process_except([engine EXCEPT !.state = c.state,
                                                !.tmps = c.tmps,
                                                !.hl_calls = c.hl_calls,
                                                !.ins_addr = IF c.raised = "" THEN None
                                                             ELSE c.ins_addr],
                                 c.raised, analysis.fail_fast)
                      EXCEPT !.stmt = NoStmt]
    /\ heap' = c.h
    /\ nextDef' = c.nextDef
    /\ analysis' = [analysis EXCEPT !.observed_results = c.observed_results,
                                    !.observed = c.observed]
    /\ stmt_idx' = IF c.raised = "" THEN None ELSE stmt_idx
    /\ UNCHANGED <<slots, visitor, plugins>>

HandleLastStmt ==
    /\ engine.stmt # NoStmt
    /\ HandledLast(process_Stmt_last(ProcessContext, analysis.observation_points,
                                     engine.stmt, engine.jumpkind))

\* the engine raises a SimEngineError instead of handling the statement
EngineError ==
    /\ engine.stmt # NoStmt
    /\ engine' = process_except(engine, "SimEngineError", analysis.fail_fast)
    /\ analysis' = [analysis EXCEPT !.observed = {}]
    /\ UNCHANGED <<slots, heap, nextDef, stmt_idx, visitor, plugins>>

NextProcess ==
    \/ \E next \in ProcessStmts : stmt_idx + 1 < MaxBlockStmts /\ HandleStmt(next)
    \/ HandleLastStmt
    \/ EngineError

SpecProcess == InitProcess /\ [][NextProcess]_vars

\* -------------------------------------------------------------- comparisons
\* t2 = Cmp(t0, t1) on the operands of SpecOps
CmpIops == {"Iop_CmpEQ", "Iop_CmpNE", "Iop_CmpLT", "Iop_CmpORD"}

CmpStmts == {WrTmp(2, Binop(iop, RdTmp(0), RdTmp(1)), MaxBits) : iop \in CmpIops}

InitCmp ==
    /\ slots = [x \in Slots |-> ReachingDefinitions]
    /\ heap = <<>>
    /\ nextDef = 1
    /\ stmt_idx = MaxBlockStmts - 2
    /\ engine \in {[NoEngine EXCEPT !.tmps = MapPut(MapPut(EmptyMap, 0, x), 1, y),
                                     !.ins_addr = 1,
                                     !.stmt = stmt,
                                     !.block_addr = 1] :
                       x \in Operands, y \in Operands, stmt \in CmpStmts}
    /\ analysis = NoAnalysis
    /\ plugins = NoPlugins
    /\ visitor = NoVisitor

NextCmp ==
    \/ \E next \in CmpStmts : stmt_idx + 1 < MaxBlockStmts /\ HandleStmt(next)
    \/ HandleStmt(NoStmt)

SpecCmp == InitCmp /\ [][NextCmp]_vars

\* ---------------------------------------------------------- guarded stores
\* Blocks of comparisons, stores and guarded stores.  The guard of a StoreG
\* is a temporary, written by a comparison or never written, or a constant.
GuardStmts ==
    {IMark(NextInsAddr)}
        \cup {WrTmp(1, Binop("Iop_CmpEQ", x, Const(1)), 1) :
                  x \in {Const(0), Const(1), RdTmp(0)}}
        \cup {Store(Operand(Const(a)), Operand(Const(1)), 8) : a \in {0, 1}}
        \cup {StoreG(Operand(Const(a)), Operand(Const(2)), Operand(g), 8) :
                  a \in {0, 1}, g \in {RdTmp(1), Const(1)}}

NextGuard ==
    \/ \E next \in GuardStmts : stmt_idx + 1 < MaxBlockStmts /\ HandleStmt(next)
    \/ HandleStmt(NoStmt)

SpecGuard == InitVex /\ [][NextGuard]_vars

\* ------------------------------------------------- SimStatePlugin.memo
\* The plugin objects are at the addresses 1 .. MaxPlugins; a copy is a new
\* object, at the next free address, that knows what it is a copy of.  At
\* most MaxMemoCalls calls of the decorated copy are made on one memo, which
\* its caller may have filled before (plugins.given is the memo as given).
MaxPlugins == 2
MaxMemoCalls == 4

SimStatePlugin(addr, copy_of) == [addr |-> addr, copy_of |-> copy_of]

PluginObjects == {SimStatePlugin(addr, 0) : addr \in 1..MaxPlugins}

\* id(obj) of CPython: the address of the object
object_id(obj) == obj.addr

\* `id(self) in memo` never holding
in_memo_never(memo, self) == FALSE

\* `id(self) in memo`
in_memo(memo, self) == object_id(self) \in DOMAIN memo

\* the number of times the undecorated copy was called on self
copied(p, self) == IF object_id(self) \in DOMAIN p.copied THEN p.copied[object_id(self)] ELSE 0

\* the undecorated copy f(self, memo) starts, or the stored copy is returned
inner_call(p, self) ==
    IF in_memo(p.memo, self)
    THEN [p EXCEPT !.returned = Append(@, [self |-> self, value |-> p.memo[object_id(self)]])]
    ELSE [p EXCEPT !.copied = MapPut(@, object_id(self), copied(p, self) + 1),
                   !.stack = Append(@, self)]

\* f(self, memo) returns the new object c: `memo[id(self)] = c; return c`
inner_return(p, c) ==
    LET self == p.stack[Len(p.stack)]
    IN [p EXCEPT !.memo = MapPut(@, object_id(self), c),
                 !.stack = SubSeq(@, 1, Len(@) - 1),
                 !.returned = Append(@, [self |-> self, value |-> c])]

\* the address of the next object to be made
NextAddr(p) ==
    MaxPlugins + 1 + Cardinality({k \in DOMAIN p.memo : p.memo[k].copy_of # 0})

InitMemo ==
    /\ slots = [x \in Slots |-> ReachingDefinitions]
    /\ heap = <<>>
    /\ nextDef = 1
    /\ stmt_idx = 0
    /\ engine = NoEngine
    /\ analysis = NoAnalysis
    /\ visitor = NoVisitor
    /\ plugins \in {NoPlugins}
                      \cup {[NoPlugins EXCEPT !.memo = MapPut(EmptyMap, object_id(x), y),
                                               !.given = MapPut(EmptyMap, object_id(x), y)] :
                                x \in PluginObjects, y \in PluginObjects}

\* a call of the decorated copy on a plugin that is not being copied: by the
\* caller of the copies, or by the copy that is running, for a plugin that
\* the one it copies refers to
CallCopy(self) ==
    /\ stmt_idx < MaxMemoCalls
    /\ \A i \in DOMAIN plugins.stack : plugins.stack[i] # self
    /\ plugins' = inner_call(plugins, self)
    /\ stmt_idx' = stmt_idx + 1
    /\ UNCHANGED <<slots, heap, nextDef, engine, analysis, visitor>>

\* the copy that is running returns its new object
ReturnCopy ==
    /\ plugins.stack # <<>>
    /\ plugins' = inner_return(plugins,
                               SimStatePlugin(NextAddr(plugins),
                                              object_id(plugins.stack[Len(plugins.stack)])))
    /\ UNCHANGED <<slots, heap, nextDef, stmt_idx, engine, analysis, visitor>>

NextMemo ==
    \/ \E self \in PluginObjects : CallCopy(self)
    \/ ReturnCopy

SpecMemo == InitMemo /\ [][NextMemo]_vars

\* ------------------------------------------- unsupported expressions
\* A block whose statements take their data from operations that the engine
\* has no handler for, among statements that it supports.
UnsupportedIops == {"Iop_Mul", "Iop_Clz"}

UnsupportedData == {Binop("Iop_Mul", RdTmp(0), Const(2)), Unop("Iop_Clz", RdTmp(0))}

UnsupportedStmts ==
    {IMark(NextInsAddr), Put(1, Operand(Const(1)), 8), WrTmp(0, Operand(Const(1)), 8)}
        \cup {Put(0, x, 8) : x \in UnsupportedData}
        \cup {WrTmp(1, x, 8) : x \in UnsupportedData}
        \cup {Store(Operand(a), x, 8) : a \in {Const(1), RdTmp(2)}, x \in UnsupportedData}

NextUnsupported ==
    \/ \E next \in UnsupportedStmts : stmt_idx + 1 < MaxBlockStmts /\ HandleStmt(next)
    \/ HandleStmt(NoStmt)

SpecUnsupported == InitVex /\ [][NextUnsupported]_vars

\* ------------------------------------------------------------ one_result
\* one_result without its check of the number of results
one_result_first(a) ==
    IF DOMAIN a.observed_results = {}
    THEN [raised |-> "ValueError", value |-> {}]
    ELSE [raised |-> "", value |-> {a.observed_results[CHOOSE k \in DOMAIN a.observed_results : TRUE]}]

\* the property one_result: what it raises, or the value it returns
one_result(a) ==
    IF DOMAIN a.observed_results = {}
    THEN [raised |-> "ValueError", value |-> {}]
    ELSE IF Cardinality(DOMAIN a.observed_results) # 1
    THEN [raised |-> "ValueError", value |-> {}]
    ELSE [raised |-> "", value |-> {a.observed_results[CHOOSE k \in DOMAIN a.observed_results : TRUE]}]

\* analysis.one_result is read after the block was processed
OneResult ==
    /\ engine.stmt = NoStmt
    /\ engine.raised = ""
    /\ analysis.result = <<>>
    /\ analysis' = [analysis EXCEPT !.result = <<one_result(analysis)>>]
    /\ UNCHANGED <<slots, heap, nextDef, stmt_idx, engine, visitor, plugins>>

NextResult ==
    \/ \E next \in ProcessStmts : stmt_idx + 1 < MaxBlockStmts /\ HandleStmt(next)
    \/ HandleLastStmt
    \/ EngineError
    \/ OneResult

SpecResult == InitProcess /\ [][NextResult]_vars

\* ---------------------------------------------- the call hook and its depth
\* Calls handled by _handle_function.  The analysis is created with a
\* current and a maximum depth and a function handler object (the set of the
\* handlers it has; None has none).  A statement defines the instruction
\* pointer, the hook is run on a call, and the local function handler runs the
\* nested analysis at the depth it was called with.
MaxDepth == 1
\* the calls handled, and the statements that define the instruction pointer
MaxCalls == 3
MaxPuts == 2

IpData ==
    {DataSet({IntVal(a)}, arch.bits) : a \in 1..4}
        \cup {DataSet({Undefined}, arch.bits), DataSet({IntVal(1), IntVal(2)}, arch.bits)}

HandlerResults == [is_updated : BOOLEAN, state : {ReachingDefinitions}]

InitHook ==
    /\ slots = [x \in Slots |-> ReachingDefinitions]
    /\ heap = <<>>
    /\ nextDef = 1
    /\ stmt_idx = 0
    /\ \E current_depth \in 0..(MaxDepth + 1), maximum_depth \in 0..MaxDepth,
          function_handler \in SUBSET {"handle_local_function", "handle_puts"} :
            engine = [NoEngine EXCEPT !.block_addr = 1,
                                      !.current_depth = current_depth,
                                      !.maximum_depth = maximum_depth,
                                      !.function_handler = function_handler]
    /\ analysis = NoAnalysis
    /\ plugins = NoPlugins
    /\ visitor = NoVisitor

\* PUT(ip) = data
PutIp(data) ==
    /\ nextDef <= MaxPuts
    /\ engine' = [engine EXCEPT !.state =
                      handle_Put(@, arch.ip_offset, arch.bits, data,
                                 <<engine.block_addr, stmt_idx>>, nextDef)]
    /\ nextDef' = nextDef + 1
    /\ UNCHANGED <<slots, heap, stmt_idx, analysis, visitor, plugins>>

\* the hook on the call that ends a block
HandleFunction(ret) ==
    /\ stmt_idx < MaxCalls
    /\ engine' = handle_function([engine EXCEPT !.logged = ""], ret)
    /\ stmt_idx' = stmt_idx + 1
    /\ UNCHANGED <<slots, heap, nextDef, analysis, visitor, plugins>>

\* handle_local_function runs the analysis of the callee with the depth and
\* the maximum depth it was called with
Descend ==
    /\ engine.invoked # <<>>
    /\ LET last == engine.invoked[Len(engine.invoked)]
       IN /\ last.name = "handle_local_function"
          /\ last.current_depth = engine.current_depth
          /\ engine' = [engine EXCEPT !.current_depth = last.depth,
                                      !.maximum_depth = last.maximum_depth,
                                      !.logged = ""]
    /\ UNCHANGED <<slots, heap, nextDef, stmt_idx, analysis, visitor, plugins>>

NextHook ==
    \/ \E data \in IpData : PutIp(data)
    \/ \E ret \in HandlerResults : HandleFunction(ret)
    \/ Descend

SpecHook == InitHook /\ [][NextHook]_vars

\* --------------------------------------------------- one block of AIL
\* The first block of a function in AIL, handled statement by statement;
\* the statements of one instruction carry the same ins_addr.
AilStmts(ins_addr) ==
    {Assignment(ins_addr, ailment_Tmp(0), src) :
         src \in {ailment_Const(1, arch.bits), ailment_Tmp(0),
                  ailment_Register(arch.sp_offset, arch.bits),
                  ailment_Register(arch.registers["r0"][1], arch.bits)}}
        \cup {Assignment(ins_addr, ailment_Register(arch.registers["r1"][1], arch.bits),
                         ailment_Const(1, arch.bits))}
        \cup {Call(ins_addr, ailment_Const(3, arch.bits), regs) : regs \in {{}, {"r0"}}}
        \cup {Jump(ins_addr, ailment_Tmp(0))}

\* the instructions of the block are at the addresses 1 .. MaxInsAddr
MaxInsAddr == 2

AilPointSets == {{}, {<<1, OP_BEFORE>>}, {<<1, OP_AFTER>>}, Points}

InitAil ==
    /\ slots = [x \in Slots |-> ReachingDefinitions]
    /\ heap = <<>>
    /\ stmt_idx = 0
    /\ analysis \in {[NoAnalysis EXCEPT !.observation_points = p,
                                        !.init_func = f,
                                        !.cc = IF f THEN <<SimRegArg("r0", 2)>> ELSE <<>>,
                                        !.track_tmps = t] :
                         p \in AilPointSets, f \in BOOLEAN, t \in BOOLEAN}
    /\ engine \in {[NoEngine EXCEPT
                        !.state = new_state(analysis.init_func, analysis.cc, 1, 1),
                        !.stmt = stmt,
                        !.block_addr = 1] : stmt \in AilStmts(1)}
    /\ nextDef = IF analysis.init_func THEN 2 + Len(analysis.cc) ELSE 1
    /\ plugins = NoPlugins
    /\ visitor = NoVisitor

AilContext ==
    Context @@ [raised |-> "", track_tmps |-> analysis.track_tmps]

\* the objects after the statement, which left the context c: an exception
\* ends the block where it stands
AilHandled(c, next) ==
    /\ engine' = [engine EXCEPT
                     !.state = c.state,
                     !.tmps = c.tmps,
                     !.ins_addr = IF next = NoStmt /\ c.raised = "" THEN None ELSE c.ins_addr,
                     !.stmt = IF c.raised = "" THEN next ELSE NoStmt,
                     !.raised = c.raised]
    /\ heap' = c.h
    /\ nextDef' = c.nextDef
    /\ analysis' = [analysis EXCEPT !.observed_results = c.observed_results,
                                    !.observed = c.observed]
    /\ stmt_idx' = IF c.raised # ""
                   THEN stmt_idx
                   ELSE IF next = NoStmt THEN None ELSE stmt_idx + 1
    /\ UNCHANGED <<slots, visitor, plugins>>

AilHandleStmt(next) ==
    /\ engine.stmt.tag \in AilTags
    /\ AilHandled(ail_process_Stmt(AilContext, analysis.observation_points, engine.stmt),
                  next)

\* the statements that may follow: of the same instruction or of the next
NextAilStmts ==
    IF engine.stmt.tag \in AilTags
    THEN AilStmts(engine.stmt.ins_addr)
             \cup IF engine.stmt.ins_addr < MaxInsAddr
                  THEN AilStmts(engine.stmt.ins_addr + 1)
                  ELSE {}
    ELSE {}

NextAil ==
    \/ \E next \in NextAilStmts : stmt_idx + 1 < MaxBlockStmts /\ AilHandleStmt(next)
    \/ AilHandleStmt(NoStmt)

SpecAil == InitAil /\ [][NextAil]_vars

\* ------------------------------------------------- jumps and calls of AIL
\* A block of AIL that is entered with a definition of the instruction
\* pointer, made at the location <<0, 0>> of the block before it.
JumpStmts(ins_addr) ==
    {Jump(ins_addr, target) : target \in {ailment_Tmp(0), ailment_Const(3, arch.bits)}}
        \cup {ConditionalJump(ins_addr, cond, ailment_Const(2, arch.bits),
                              ailment_Const(3, arch.bits)) :
                  cond \in {ailment_Tmp(0), ailment_Const(1, arch.bits)}}
        \cup {Call(ins_addr, ailment_Const(3, arch.bits), regs) : regs \in {{}, {"r0"}}}
        \cup {Assignment(ins_addr, ailment_Tmp(0), ailment_Const(1, arch.bits))}

InitJump ==
    /\ slots = [x \in Slots |-> ReachingDefinitions]
    /\ heap = <<>>
    /\ stmt_idx = 0
    /\ analysis \in {[NoAnalysis EXCEPT !.observation_points = p, !.track_tmps = t] :
                         p \in AilPointSets, t \in BOOLEAN}
    /\ engine \in {[NoEngine EXCEPT
                        !.state = kill_and_add_definition(
                                      ReachingDefinitions,
                                      Register(arch.ip_offset, arch.bytes), <<0, 0>>,
                                      DataSet({IntVal(1)}, arch.bits), 1),
                        !.stmt = stmt,
                        !.block_addr = 1] : stmt \in JumpStmts(1)}
    /\ nextDef = 2
    /\ plugins = NoPlugins
    /\ visitor = NoVisitor

NextJumpStmts ==
    IF engine.stmt.tag \in AilTags
    THEN JumpStmts(engine.stmt.ins_addr)
             \cup IF engine.stmt.ins_addr < MaxInsAddr
                  THEN JumpStmts(engine.stmt.ins_addr + 1)
                  ELSE {}
    ELSE {}

NextJump ==
    \/ \E next \in NextJumpStmts : stmt_idx + 1 < MaxBlockStmts /\ AilHandleStmt(next)
    \/ AilHandleStmt(NoStmt)

SpecJump == InitJump /\ [][NextJump]_vars

\* a block of VEX or a block of AIL, as _run_on_node hands it to its engine
NextBlocks ==
    \/ engine.stmt.tag \notin AilTags /\ NextVex
    \/ NextAil

SpecBlocks == (InitVex \/ InitAil) /\ [][NextBlocks]_vars

\* --------------------------------------------- the analysis of a function
\* Block n of the function is at address n and holds one instruction, which
\* reads register 0 and writes it.
NumBlocks == 3
MaxIterations == 4

Blocks == 1 .. NumBlocks

statements(node) ==
    <<IMark(node), WrTmp(0, Get(0), 8), Put(0, Operand(Const(node)), 8)>>

\* the ReachingDefinitionAnalysis object, as a state points back to it
self == 1

\* __init__ on init_state: the analysis keeps a copy that points back to it
init_state_copy(init_state) == [copy(init_state) EXCEPT !.analysis = self]

initial_abstract_state(a) ==
    IF a.init_state # <<>>
    THEN a.init_state[1]
    ELSE [ReachingDefinitions EXCEPT !.analysis = self]

merge_states(h, states) == merge(states[1], h, Tail(states))

\* _run_on_node: (changed, state), with the objects the run has written
node_iterations(a, node) ==
    IF node \in DOMAIN a.node_iterations THEN a.node_iterations[node] ELSE 0

\* the comparison with `<=` in the place of `<`
changed_inclusive(a, node) == node_iterations(a, node) + 1 <= a.max_iterations

\* `self._node_iterations[block_key] += 1` and the comparison that follows it
changed(a, node) == node_iterations(a, node) + 1 < a.max_iterations

run_on_node(a, h, id, node, state) ==
    With(process([state |-> copy(state), tmps |-> EmptyMap, ins_addr |-> None,
                  block_addr |-> node, stmt_idx |-> None, h |-> h,
                  nextDef |-> id, observed_results |-> a.observed_results,
                  observed |-> {}, raised |-> ""],
                 a.observation_points, statements(node)),
         LAMBDA c :
             [changed |-> changed(a, node),
              state |-> c.state,
              tmps |-> c.tmps,
              h |-> c.h,
              nextDef |-> c.nextDef,
              analysis |-> [a EXCEPT
                               !.node_iterations =
                                   MapPut(@, node, node_iterations(a, node) + 1),
                               !.observed_results = c.observed_results,
                               !.observed = c.observed]])

\* The forward analysis (forward_analysis.py): the visitor hands out the
\* first block of its sorted worklist; the block's input is the merge of the
\* out-states of its predecessors, or the initial state when there is none;
\* when the run reports a change the successors are queued again.
next_node(v) == CHOOSE n \in v.worklist : \A m \in v.worklist : n <= m

successors(v, node) == {m \in Blocks : <<node, m>> \in v.graph}

predecessors(v, node) == {m \in Blocks : <<m, node>> \in v.graph}

RECURSIVE out_states_of(_, _)
out_states_of(v, nodes) ==
    IF nodes = {}
    THEN <<>>
    ELSE LET n == CHOOSE x \in nodes : \A y \in nodes : x <= y
         IN <<v.out_states[n]>> \o out_states_of(v, nodes \ {n})

input_state(v, h, node) ==
    LET ran == predecessors(v, node) \cap DOMAIN v.out_states
    IN IF ran = {}
       THEN [s |-> initial_abstract_state(analysis), h |-> h]
       ELSE merge_states(h, out_states_of(v, ran))

InitDriver ==
    /\ slots = [x \in Slots |-> ReachingDefinitions]
    /\ heap = <<>>
    /\ nextDef = 1
    /\ stmt_idx = None
    /\ engine = NoEngine
    /\ analysis \in {[NoAnalysis EXCEPT !.max_iterations = i,
                                        !.observation_points = {<<1, OP_AFTER>>}] :
                         i \in 1 .. MaxIterations}
    /\ plugins = NoPlugins
    /\ visitor \in {[NoVisitor EXCEPT !.graph = g, !.worklist = Blocks] :
                        g \in SUBSET (Blocks \X Blocks)}

\* the objects after the run r of the block `node`
Ran(node, r) ==
    /\ visitor' = [visitor EXCEPT
                      !.out_states = MapPut(@, node, r.state),
                      !.worklist = (@ \ {node}) \cup
                          (IF r.changed THEN successors(visitor, node) ELSE {}),
                      !.runs = @ + 1]
    /\ analysis' = r.analysis
    /\ engine' = [engine EXCEPT !.state = r.state, !.tmps = r.tmps,
                                !.block_addr = node]
    /\ heap' = r.h
    /\ nextDef' = r.nextDef
    /\ UNCHANGED <<slots, stmt_idx, plugins>>

RunNode ==
    /\ visitor.worklist # {}
    /\ Ran(next_node(visitor),
           With(input_state(visitor, heap, next_node(visitor)),
                LAMBDA input : run_on_node(analysis, input.h, nextDef,
                                           next_node(visitor), input.s)))

NextDriver == RunNode

SpecDriver == InitDriver /\ [][NextDriver]_vars

\* The driver on the graphs of a loop: the blocks in a chain, and any of the
\* edges that lead back from a block to itself or to an earlier one.
LoopGraphs ==
    {{<<n, n + 1>> : n \in 1 .. (NumBlocks - 1)} \cup back :
         back \in SUBSET {e \in Blocks \X Blocks : e[2] <= e[1]}}

InitLoop ==
    /\ slots = [x \in Slots |-> ReachingDefinitions]
    /\ heap = <<>>
    /\ nextDef = 1
    /\ stmt_idx = None
    /\ engine = NoEngine
    /\ analysis \in {[NoAnalysis EXCEPT !.max_iterations = i] : i \in 1 .. MaxIterations}
    /\ plugins = NoPlugins
    /\ visitor \in {[NoVisitor EXCEPT !.graph = g, !.worklist = Blocks] : g \in LoopGraphs}

SpecLoop == InitLoop /\ [][NextDriver]_vars

\* The analysis of a seeded function.  The caller holds the state object
\* slots["s"], on which earlier statements (of a block 0) have defined
\* register r0 and recorded uses of it, and creates the analysis with it as
\* init_state.
MaxSeedStmts == 2

SeedAtom == Register(0, 1)

SeedDefine(v) ==
    /\ visitor.worklist = {} /\ visitor.runs = 0
    /\ stmt_idx <= MaxSeedStmts
    /\ slots' = [slots EXCEPT !["s"] =
                    kill_and_add_definition(@, SeedAtom, <<0, stmt_idx>>,
                        DataSet({IntVal(v)}, 8), nextDef)]
    /\ nextDef' = nextDef + 1
    /\ stmt_idx' = stmt_idx + 1
    /\ UNCHANGED <<heap, runVars>>

SeedUse ==
    /\ visitor.worklist = {} /\ visitor.runs = 0
    /\ stmt_idx <= MaxSeedStmts
    /\ LET r == add_use(slots["s"], heap, SeedAtom, <<0, stmt_idx>>)
       IN /\ slots' = [slots EXCEPT !["s"] = r.s]
          /\ heap' = r.h
    /\ stmt_idx' = stmt_idx + 1
    /\ UNCHANGED <<nextDef, runVars>>

\* ReachingDefinitionAnalysis(func, max_iterations=i, init_state=s)
Analyze(i, g) ==
    /\ visitor.worklist = {} /\ visitor.runs = 0
    /\ analysis' = [analysis EXCEPT !.max_iterations = i,
                                    !.init_state = <<init_state_copy(slots["s"])>>]
    /\ visitor' = [visitor EXCEPT !.graph = g, !.worklist = Blocks]
    /\ UNCHANGED <<slots, heap, nextDef, stmt_idx, engine, plugins>>

InitSeed == InitCalls

NextSeed ==
    \/ \E v \in {1, 2} : SeedDefine(v)
    \/ SeedUse
    \/ \E i \in 1 .. MaxIterations, g \in LoopGraphs : Analyze(i, g)
    \/ RunNode

SpecSeed == InitSeed /\ [][NextSeed]_vars

\* ------------------------------------------------------------------ queries
\* What a caller can read from a state object: the definitions covering each
\* offset, get_uses of each definition, the temporaries and the dead-virgin
\* set.
Offsets == {0, 1}

UsesOf(u, h) ==
    [d \in DOMAIN u.uses_by_definition |-> Uses_get_uses(u, h, d)]

Queries(s, h) ==
    [register_definitions |->
         [o \in Offsets |-> get_objects_by_offset(s.register_definitions, o)],
     memory_definitions |->
         [o \in Offsets |-> get_objects_by_offset(s.memory_definitions, o)],
     register_uses |-> UsesOf(s.register_uses, h),
     memory_uses |-> UsesOf(s.memory_uses, h),
     tmp_definitions |-> s.tmp_definitions,
     tmp_uses |-> [i \in DOMAIN s.tmp_uses |-> h[s.tmp_uses[i]]],
     dead_virgin_definitions |-> s.dead_virgin_definitions]

QueriesOf(x) == Queries(slots[x], heap)

MutationOf(x) ==
    \/ \E atom \in Atoms, v \in Vals : KillAndAdd(x, atom, v)
    \/ \E atom \in Atoms : AddUse(x, atom)

\* C1: a kill_and_add_definition or add_use call on one of a state and its
\* copy leaves every query on the other unchanged.
C1_CopyIndependent ==
    [][\A x \in Slots : MutationOf(x) =>
           \A y \in Slots \ {x} : QueriesOf(y)' = QueriesOf(y)]_vars

\* ------------------------------------------------- calls on one state object
TheState == slots["s"]

RegionOf(s, atom) ==
    IF atom.kind = "reg" THEN s.register_definitions ELSE s.memory_definitions

UsesFor(s, atom) ==
    IF atom.kind = "reg" THEN s.register_uses ELSE s.memory_uses

DefsOf(s) ==
    {e.obj : e \in s.register_definitions \cup s.memory_definitions}

\* the byte range of p lies inside the byte range of atom
Inside(p, atom) ==
    /\ atom.offset <= p.offset
    /\ p.offset + p.size <= atom.offset + atom.size

C5_DeadVirgin ==
    [][\A atom \in RegAtoms, v \in Vals : KillAndAdd("s", atom, v) =>
           \A D \in get_objects_by_offset(TheState.register_definitions, atom.offset) :
               (D.atom = atom /\ Uses_get_uses(TheState.register_uses, heap, D) = {})
                   => D \in TheState.dead_virgin_definitions']_vars

\* C6: a write to a sub-register leaves a wider definition whose range
\* strictly contains it among the definitions reaching the parent's offsets,
\* and does not add it to dead_virgin_definitions.
C6_SubRegisterWrite ==
    [][\A atom \in RegAtoms, v \in Vals : KillAndAdd("s", atom, v) =>
           \A P \in DefsOf(TheState) :
               (P.atom.kind = "reg" /\ Inside(atom, P.atom) /\ atom # P.atom) =>
                   /\ \A o \in P.atom.offset .. (P.atom.offset + P.atom.size - 1) :
                          P \in get_objects_by_offset(TheState.register_definitions', o)
                   /\ P \in TheState.dead_virgin_definitions'
                          => P \in TheState.dead_virgin_definitions]_vars

\* the definitions a state object knows of
KnownDefs(s) ==
    DefsOf(s) \cup DOMAIN s.register_uses.uses_by_definition
              \cup DOMAIN s.memory_uses.uses_by_definition
              \cup s.dead_virgin_definitions

\* add_use(atom, loc) adds loc to the uses of exactly the definitions that
\* cover atom's offset in atom's region.
AddUseRecords(s, h) ==
    \A atom \in RegAtoms \cup MemAtoms :
        LET r == add_use(s, h, atom, stmt_idx)
            covering == get_objects_by_offset(RegionOf(s, atom), atom.offset)
        IN \A D \in KnownDefs(s) :
               /\ Uses_get_uses(UsesFor(r.s, atom), r.h, D) =
                      Uses_get_uses(UsesFor(s, atom), h, D)
                          \cup (IF D \in covering THEN {stmt_idx} ELSE {})
               /\ \A other \in (RegAtoms \cup MemAtoms) :
                      other.kind # atom.kind =>
                          Uses_get_uses(UsesFor(r.s, other), r.h, D) =
                              Uses_get_uses(UsesFor(s, other), h, D)

\* PUT(r) = v at stmt_idx followed by GET(r) at stmt_idx + 1
PutThenGet(s, h, atom, v) ==
    LET d == DataSet({IntVal(v)}, atom.size * 8)
        s1 == handle_Put(s, atom.offset, atom.size * 8, d, stmt_idx, nextDef)
        g == handle_Get(s1, h, atom.offset, atom.size * 8, stmt_idx + 1)
    IN [put |-> Definition(nextDef, atom, stmt_idx, d), get |-> g]

\* C7 as stated: add_use records loc on exactly the covering definitions, and
\* Put(r) = v followed by Get(r) evaluates to exactly v's data, the Get being
\* recorded as a use of the definition the Put created.
C7_AddUseAndGet ==
    /\ AddUseRecords(TheState, heap)
    /\ \A atom \in RegAtoms, v \in Vals :
           LET r == PutThenGet(TheState, heap, atom, v)
           IN /\ r.get.value = r.put.data
              /\ (stmt_idx + 1) \in
                     Uses_get_uses(r.get.s.register_uses, r.get.h, r.put)

\* C7 amended: the Get evaluates to v's data united with the data of the
\* earlier definitions that cover r's offset and are not fully covered by r
\* (exactly v's data when there is none).
C7_AddUseAndGetOverlap ==
    /\ AddUseRecords(TheState, heap)
    /\ \A atom \in RegAtoms, v \in Vals :
           LET r == PutThenGet(TheState, heap, atom, v)
               kept == {p \in get_objects_by_offset(TheState.register_definitions,
                                                    atom.offset) :
                            ~Inside(p.atom, atom)}
           IN /\ r.get.value =
                     DataSet(r.put.data.data \cup UnitedData(kept), atom.size * 8)
              /\ kept = {} => r.get.value = r.put.data
              /\ (stmt_idx + 1) \in
                     Uses_get_uses(r.get.s.register_uses, r.get.h, r.put)

\* C7 witness: a register was written over a wider definition and then read
\* at the next statement; the read is recorded as a use of both.
C7_Witness ==
    \E p, n \in get_objects_by_offset(TheState.register_definitions, 0) :
        /\ p.atom = Register(0, 2) /\ n.atom = Register(0, 1)
        /\ p.id < n.id
        /\ p.data # n.data
        /\ (n.codeloc + 1) \in Uses_get_uses(TheState.register_uses, heap, n)
        /\ (n.codeloc + 1) \in Uses_get_uses(TheState.register_uses, heap, p)

\* ------------------------------------------------------------------- merge
\* The sequences of other states a merge is called with.
Others == {<<slots[y]>> : y \in Slots} \cup {<<slots[y], slots[z]>> : y, z \in Slots}

\* C8: s.merge(o1, ..., on) holds at every offset the union of the register
\* and of the memory definitions of s and every oi, for every definition the
\* union of the recorded uses, and the union of the dead-virgin sets.
C8_MergeIsUnion ==
    \A x \in Slots : \A others \in Others :
        LET all == {slots[x]} \cup {others[i] : i \in DOMAIN others}
            r == merge(slots[x], heap, others)
        IN /\ \A o \in Offsets :
                  /\ get_objects_by_offset(r.s.register_definitions, o) =
                         UNION {get_objects_by_offset(a.register_definitions, o) : a \in all}
                  /\ get_objects_by_offset(r.s.memory_definitions, o) =
                         UNION {get_objects_by_offset(a.memory_definitions, o) : a \in all}
           /\ \A D \in UNION {KnownDefs(a) : a \in all} :
                  /\ Uses_get_uses(r.s.register_uses, r.h, D) =
                         UNION {Uses_get_uses(a.register_uses, heap, D) : a \in all}
                  /\ Uses_get_uses(r.s.memory_uses, r.h, D) =
                         UNION {Uses_get_uses(a.memory_uses, heap, D) : a \in all}
           /\ r.s.dead_virgin_definitions =
                  UNION {a.dead_virgin_definitions : a \in all}

\* C8 witness: a merged state holds two definitions of one register, one of
\* them with a use recorded on its side.
C8_Witness ==
    \E x \in Slots :
        \E d1, d2 \in get_objects_by_offset(slots[x].register_definitions, 0) :
            /\ d1 # d2 /\ d1.atom = d2.atom
            /\ Uses_get_uses(slots[x].register_uses, heap, d1) # {}
            /\ Uses_get_uses(slots[x].register_uses, heap, d2) = {}

\* The queries that merge unions: everything but the temporaries.
MergedQueries(s, h) ==
    [f \in {"register_definitions", "memory_definitions", "register_uses",
            "memory_uses", "dead_virgin_definitions"} |-> Queries(s, h)[f]]

TmpQueries(s, h) ==
    [f \in {"tmp_definitions", "tmp_uses"} |-> Queries(s, h)[f]]

\* a.merge(b) then b.merge(a), as two calls in a row
Commuted(a, b, h) ==
    LET ab == merge(a, h, <<b>>)
        ba == merge(b, ab.h, <<a>>)
    IN [l |-> ab.s, r |-> ba.s, h |-> ba.h]

\* a.merge(b).merge(c) then a.merge(b.merge(c))
Associated(a, b, c, h) ==
    LET ab == merge(a, h, <<b>>)
        ab_c == merge(ab.s, ab.h, <<c>>)
        bc == merge(b, ab_c.h, <<c>>)
        a_bc == merge(a, bc.h, <<bc.s>>)
    IN [l |-> ab_c.s, r |-> a_bc.s, h |-> a_bc.h]

\* a.merge(a)
Idempotent(a, h) ==
    LET aa == merge(a, h, <<a>>)
    IN [l |-> aa.s, r |-> a, h |-> aa.h]

MergeLaws ==
    {Commuted(slots[x], slots[y], heap) : x, y \in Slots}
        \cup {Associated(slots[x], slots[y], slots[z], heap) : x, y, z \in Slots}
        \cup {Idempotent(slots[x], heap) : x \in Slots}

\* C9 as stated: the two sides of the commutative, the associative and the
\* idempotent law are equal states (every query agrees).
C9_MergeAlgebra ==
    \A e \in MergeLaws : Queries(e.l, e.h) = Queries(e.r, e.h)

\* C9 amended: the two sides agree on the definitions, the uses and the
\* dead-virgin set; the temporaries of a merge are those of its receiver.
C9_MergeAlgebraMerged ==
    /\ \A e \in MergeLaws : MergedQueries(e.l, e.h) = MergedQueries(e.r, e.h)
    /\ \A x, y \in Slots :
           LET e == Commuted(slots[x], slots[y], heap)
           IN /\ TmpQueries(e.l, e.h) = TmpQueries(slots[x], e.h)
              /\ TmpQueries(e.r, e.h) = TmpQueries(slots[y], e.h)

\* C9 witness: two states that differ in definitions and in temporaries, one
\* of them the result of a merge.
C9_Witness ==
    \E x, y \in Slots :
        /\ slots[x].tmp_definitions # slots[y].tmp_definitions
        /\ Cardinality(get_objects_by_offset(slots[x].register_definitions, 0)) = 2
        /\ get_objects_by_offset(slots[y].register_definitions, 0) # {}

\* ------------------------------------------------- observation snapshots
\* what a caller reads from the snapshot recorded under key k
SnapshotQueries(k) == MergedQueries(analysis.observed_results[k], heap)

\* C2: the handling of a statement leaves the snapshot recorded under every
\* key unchanged (its definitions, the use locations of each definition and
\* its dead-virgin set), unless the statement records that key again.
C2_SnapshotFrozen ==
    [][\A k \in DOMAIN analysis.observed_results :
           k \notin analysis'.observed => SnapshotQueries(k)' = SnapshotQueries(k)]_vars

\* ------------------------------------------------------------ block runs
\* C3: the number of block runs is at most max_iterations x |blocks|.
C3_RunsBounded == visitor.runs <= analysis.max_iterations * Cardinality(Blocks)

\* ------------------------------------------------------------- VEX Store
\* the address set and the data of the Store about to be handled
StoreAddr == expr(Context, engine.stmt.addr, engine.stmt.bits).value

StoreData == expr(Context, engine.stmt.data, engine.stmt.bits).value

Concrete(addr) == {a \in addr.data : a # Undefined}

MemoryDefs(s) == {e.obj : e \in s.memory_definitions}

\* C10: a Store installs, at its code location, one MemoryLocation
\* definition holding the stored data for every concrete member of its
\* address set and none for Undefined; after the Store each of them is among
\* the definitions at its address (none was killed by another one).
C10_StoreAllAddresses ==
    [][engine.stmt.tag = "Store" =>
           LET loc == codeloc(Context)
               size == engine.stmt.bits \div 8
               installed == {d \in MemoryDefs(engine.state)' : d.codeloc = loc}
           IN /\ \A a \in Concrete(StoreAddr) :
                     \E d \in installed :
                         /\ d.atom = MemoryLocation(a.v, size)
                         /\ d.data = StoreData
                         /\ d \in get_objects_by_offset(engine.state.memory_definitions, a.v)'
              /\ {d.atom : d \in installed} =
                     {MemoryLocation(a.v, size) : a \in Concrete(StoreAddr)}
              /\ Cardinality(installed) = Cardinality(Concrete(StoreAddr))]_vars

\* a Store through {Undefined, 0, 1} has been handled
C10_Witness ==
    /\ 0 \in DOMAIN engine.tmps
    /\ engine.tmps[0].data = {Undefined, IntVal(0), IntVal(1)}
    /\ \E d1, d2 \in MemoryDefs(engine.state) :
           /\ d1.codeloc = d2.codeloc
           /\ d1.atom = MemoryLocation(0, 1)
           /\ d2.atom = MemoryLocation(1, 1)

\* -------------------------------------------------------------- VEX Load
\* the statement about to be handled writes a temporary from a Load
IsLoad == engine.stmt.tag = "WrTmp" /\ engine.stmt.data.op = "Load"

\* the address set of that Load
LoadAddr == expr_operand(Context, engine.stmt.data.args[1], engine.stmt.bits)

MemoryUses(e, h, d) == Uses_get_uses(e.state.memory_uses, h, d)

\* C11: a Load from a concrete address at which the memory region holds
\* definitions evaluates to the union of the data of the definitions covering
\* that address, exactly so when it is the only address of the Load, and
\* adds the Load's code location, and nothing else, to the uses of each of
\* those definitions.
C11_LoadUnitesDefinitions ==
    [][IsLoad =>
           \A a \in Concrete(LoadAddr) :
               LET defs == get_objects_by_offset(engine.state.memory_definitions, a.v)
                   value == engine'.tmps[engine.stmt.n]
               IN defs # {} =>
                      /\ UnitedData(defs) \subseteq value.data
                      /\ LoadAddr.data = {a} => value.data = UnitedData(defs)
                      /\ value.bits = engine.stmt.bits
                      /\ \A d \in defs :
                             MemoryUses(engine, heap, d)' =
                                 MemoryUses(engine, heap, d) \cup {codeloc(Context)}]_vars

\* after a Store of {1} through the address set {0}, a Load from {0} has
\* evaluated to {1} and is recorded as the one use of the Store's definition
C11_Witness ==
    /\ 0 \in DOMAIN engine.tmps /\ 1 \in DOMAIN engine.tmps
    /\ engine.tmps[0].data = {IntVal(0)}
    /\ engine.tmps[1].data = {IntVal(1)}
    /\ \E d \in get_objects_by_offset(engine.state.memory_definitions, 0) :
           /\ d.data.data = {IntVal(1)}
           /\ Cardinality(MemoryUses(engine, heap, d)) = 1

\* ------------------------------------------------- sizes of definitions
\* C12: every definition held in register_definitions or memory_definitions
\* has data of as many bits as its atom has: data.bits = atom.size * 8.
C12_BitsMatchSize ==
    \A d \in {e.obj : e \in engine.state.register_definitions
                               \cup engine.state.memory_definitions} :
        d.data.bits = d.atom.size * 8

\* ---------------------------------------------------------- fresh states
\* the arguments of the calling convention, of one type
ArgsOf(type) == {analysis.cc[i] : i \in {j \in DOMAIN analysis.cc : analysis.cc[j].type = type}}

\* C20: a fresh state built with init_func set holds a definition of the
\* stack-pointer register with the data {initial_sp}, for each SimStackArg
\* (o, n) exactly one definition at the address initial_sp + o, with the data
\* {Parameter(SpOffset(n * 8, o))}, and for each SimRegArg a definition of
\* its register with the data {Parameter(Register)}; a state built without
\* init_func holds no definitions.
C20_FreshState ==
    stmt_idx = 0 =>
        IF analysis.init_func
        THEN /\ \E d \in get_objects_by_offset(engine.state.register_definitions,
                                                arch.sp_offset) :
                    /\ d.atom = Register(arch.sp_offset, arch.bytes)
                    /\ d.data = DataSet({IntVal(arch.initial_sp)}, arch.bits)
             /\ \A arg \in ArgsOf("SimStackArg") :
                    LET defs == get_objects_by_offset(engine.state.memory_definitions,
                                                      arch.initial_sp + arg.stack_offset)
                    IN /\ Cardinality(defs) = 1
                       /\ \A d \in defs :
                              /\ d.atom.kind = "mem"
                              /\ d.atom.offset = arch.initial_sp + arg.stack_offset
                              /\ d.data.data =
                                     {Parameter(SpOffset(arg.size * 8, arg.stack_offset))}
             /\ \A arg \in ArgsOf("SimRegArg") :
                    \E d \in get_objects_by_offset(engine.state.register_definitions,
                                                   arch.registers[arg.reg_name][1]) :
                        /\ d.atom.kind = "reg"
                        /\ d.atom.offset = arch.registers[arg.reg_name][1]
                        /\ d.data.data = {Parameter(d.atom)}
        ELSE /\ engine.state.register_definitions = {}
             /\ engine.state.memory_definitions = {}
             /\ engine.state.tmp_definitions = EmptyMap

\* a fresh state built with init_func for two stack arguments
C20_Witness ==
    /\ stmt_idx = 0
    /\ analysis.init_func
    /\ Cardinality(ArgsOf("SimStackArg")) = 2
    /\ Cardinality({e.obj : e \in engine.state.memory_definitions}) = 2

\* ------------------------------------------------- operations on DataSets
\* the statement about to be handled writes t2 from the operation iop on the
\* temporaries t0 and t1
IsBinop(iops) ==
    /\ engine.stmt.tag = "WrTmp"
    /\ engine.stmt.data.op = "Binop"
    /\ engine.stmt.data.iop \in iops

\* the operations that the DataSet operators implement
DataSetIops ==
    {"Iop_And", "Iop_Or", "Iop_Add", "Iop_Sub", "Iop_Xor", "Iop_Shl", "Iop_Shr", "Iop_Sal"}

\* C14: a DataSet operator always returns a DataSet.  Its result contains
\* Undefined exactly when some pair of members has Undefined or a member
\* without the operator (the type error) in it, so x op {Undefined} and
\* {Undefined} op x contain Undefined, and it contains an integer exactly
\* when some pair of integers exists: the pairs besides a failing one are
\* evaluated.
C14_UndefinedAbsorbs ==
    [][IsBinop(DataSetIops) =>
           LET x == engine.tmps[0].data
               y == engine.tmps[1].data
               r == engine'.tmps[2]
           IN /\ 2 \in DOMAIN engine'.tmps
              /\ r.bits = engine.tmps[0].bits
              /\ r.data # {}
              /\ Undefined \in r.data <=>
                     \E s \in x, o \in y : s.t \notin {"int", "bool"} \/ o.t \notin {"int", "bool"}
              /\ (\E m \in r.data : m.t = "int") <=>
                     \E s \in x, o \in y : s.t \in {"int", "bool"} /\ o.t \in {"int", "bool"}
              /\ r.data \subseteq {Undefined} \cup {IntVal(n) : n \in 0 .. (2 ^ MaxBits - 1)}]_vars

\* an operation on {1, Parameter} and {1, 2^w - 1} gave integers and Undefined
C14_Witness ==
    /\ 2 \in DOMAIN engine.tmps
    /\ engine.tmps[0].data = {IntVal(1), Parameter(Register(0, 2))}
    /\ engine.tmps[1].data = {IntVal(1), IntVal(2 ^ MaxBits - 1)}
    /\ engine.tmps[2].data = {Undefined, IntVal(2), IntVal(0)}

\* C15: for integers a and b of width w, {a} + {b} is {(a + b) mod 2^w},
\* {a} - {b} is {(a - b) mod 2^w} and {a} << {b} is {(a * 2^b) mod 2^w}, each
\* of width w.
C15_MaskLaw ==
    [][IsBinop({"Iop_Add", "Iop_Sub", "Iop_Shl"}) =>
           \A a, b \in 0 .. (2 ^ MaxBits - 1) :
               (engine.tmps[0] = DataSet({IntVal(a)}, MaxBits)
                    /\ engine.tmps[1] = DataSet({IntVal(b)}, MaxBits)) =>
                   engine'.tmps[2] =
                       DataSet({IntVal(CASE engine.stmt.data.iop = "Iop_Add" ->
                                               (a + b) % (2 ^ MaxBits)
                                         [] engine.stmt.data.iop = "Iop_Sub" ->
                                               (a - b + 2 ^ MaxBits) % (2 ^ MaxBits)
                                         [] OTHER -> (a * 2 ^ b) % (2 ^ MaxBits))},
                               MaxBits)]_vars

\* {2^w - 1} + {2^w - 1} has given {2^w - 2}
C15_Witness ==
    /\ 2 \in DOMAIN engine.tmps
    /\ engine.tmps[0].data = {IntVal(2 ^ MaxBits - 1)}
    /\ engine.tmps[1].data = {IntVal(2 ^ MaxBits - 1)}
    /\ engine.tmps[2] = DataSet({IntVal(2 ^ MaxBits - 2)}, MaxBits)

\* the number that the w-bit pattern e0 stands for in two's complement
Signed(e0) == IF e0 >= 2 ^ (MaxBits - 1) THEN e0 - 2 ^ MaxBits ELSE e0

\* the pattern of the number n, floor(n / 2^e1) being the arithmetic shift
ArithmeticShift(e0, e1) ==
    IF Signed(e0) >= 0
    THEN e0 \div (2 ^ e1)
    ELSE 2 ^ MaxBits - ((2 ^ e1 - 1 - Signed(e0)) \div (2 ^ e1))

\* C16 as claimed: Sar of e0 by e1 <= w is the arithmetic right shift of e0
\* at width w, and Sar by a shift amount larger than w is Undefined.
C16_SarLaw ==
    [][IsBinop({"Iop_Sar"}) =>
           \A e0, e1 \in 0 .. (2 ^ MaxBits - 1) :
               (engine.tmps[0] = DataSet({IntVal(e0)}, MaxBits)
                    /\ engine.tmps[1] = DataSet({IntVal(e1)}, MaxBits)) =>
                   engine'.tmps[2].data =
                       IF e1 <= MaxBits
                       THEN {IntVal(ArithmeticShift(e0, e1))}
                       ELSE {Undefined}]_vars

\* C16, amended: Sar of e0 by e1 <= w is the arithmetic right shift of e0 at
\* width w; Sar by a shift amount larger than w is 0 where the sign bit of
\* e0 is clear and Undefined where it is set.
C16_SarLawBySign ==
    [][IsBinop({"Iop_Sar"}) =>
           \A e0, e1 \in 0 .. (2 ^ MaxBits - 1) :
               (engine.tmps[0] = DataSet({IntVal(e0)}, MaxBits)
                    /\ engine.tmps[1] = DataSet({IntVal(e1)}, MaxBits)) =>
                   engine'.tmps[2] =
                       DataSet(IF e1 <= MaxBits
                               THEN {IntVal(ArithmeticShift(e0, e1))}
                               ELSE IF Signed(e0) >= 0 THEN {IntVal(0)} ELSE {Undefined},
                               MaxBits)]_vars

\* Sar of the least negative number by w + 1 has given Undefined
C16_Witness ==
    /\ 2 \in DOMAIN engine.tmps
    /\ engine.tmps[0].data = {IntVal(2 ^ (MaxBits - 1))}
    /\ engine.tmps[1].data = {IntVal(MaxBits + 1)}
    /\ engine.tmps[2].data = {Undefined}

\* ------------------------------------------------------ DataSets built
\* the DataSets that the state and the temporaries of the engine hold
DataSetsHeld ==
    {e.obj.data : e \in engine.state.register_definitions \cup engine.state.memory_definitions}
        \cup {engine.tmps[i] : i \in {j \in DOMAIN engine.tmps : IsDataSet(engine.tmps[j])}}

\* C13: no DataSet is built over the empty set: the assertion len(data) >= 1
\* of the constructor never fails, and every DataSet held has a member.
C13_DataSetsNonEmpty ==
    /\ engine.raised # "AssertionError: len(data) >= 1"
    /\ \A d \in DataSetsHeld : d.data # {}

\* ------------------------------------------------------------ AIL calls
\* the definitions of the register named reg_name in the state s
RegisterDefs(s, reg_name) ==
    get_objects_by_offset(s.register_definitions, arch.registers[reg_name][1])

\* C19: the handling of a Call whose calling convention names caller-saved
\* registers leaves no definition at the offset of a caller-saved register
\* and leaves the definitions of the registers that are neither caller-saved
\* nor the instruction pointer as they were.
C19_CallKillsCallerSaved ==
    [][(engine.stmt.tag = "Call" /\ engine.stmt.CALLER_SAVED_REGS # {}) =>
           /\ \A reg_name \in engine.stmt.CALLER_SAVED_REGS :
                  RegisterDefs(engine'.state, reg_name) = {}
           /\ \A reg_name \in {"r0", "r1", "sp"} \ engine.stmt.CALLER_SAVED_REGS :
                  RegisterDefs(engine'.state, reg_name) = RegisterDefs(engine.state, reg_name)]_vars

\* ------------------------------------------------------- observe
\* the address of the instruction of the statement about to be handled
StmtInsAddr ==
    IF engine.stmt.tag \in AilTags
    THEN engine.stmt.ins_addr
    ELSE IF engine.stmt.tag = "IMark" THEN engine.stmt.n ELSE engine.ins_addr

\* C17: the handling of a statement records snapshots only under keys
\* (ins_addr, op_type) of observation_points, ins_addr being the address of
\* the statement's instruction; for a VEX statement OP_BEFORE is recorded
\* only at an IMark and OP_AFTER only at the last statement of the block or
\* before an IMark; for an AIL statement every key of observation_points at
\* its instruction is recorded by the observe calls made.  The keys of
\* observed_results are among observation_points.
C17_ObservedPoints ==
    [][/\ \A k \in analysis'.observed :
              /\ k \in analysis.observation_points
              /\ k[1] = StmtInsAddr
              /\ k \in DOMAIN analysis'.observed_results
              /\ engine.stmt.tag \notin AilTags =>
                     /\ k[2] = OP_BEFORE => engine.stmt.tag = "IMark"
                     /\ k[2] = OP_AFTER =>
                            engine'.stmt = NoStmt \/ engine'.stmt.tag = "IMark"
       /\ engine.stmt.tag \in AilTags =>
              \A op_type \in {OP_BEFORE, OP_AFTER} :
                  (/\ <<StmtInsAddr, op_type>> \in analysis.observation_points
                   /\ op_type = OP_AFTER => engine'.raised = "")
                      => <<StmtInsAddr, op_type>> \in analysis'.observed
       /\ DOMAIN analysis.observed_results \subseteq analysis.observation_points
       /\ DOMAIN analysis'.observed_results \subseteq analysis.observation_points
       /\ analysis'.observation_points = analysis.observation_points]_vars

\* a block was handled to its end with every observation point recorded
C17_Witness ==
    /\ analysis.observation_points = Points
    /\ DOMAIN analysis.observed_results = Points
    /\ engine.stmt = NoStmt
    /\ engine.raised = ""

\* ------------------------------------------- the order of observations
\* the statement about to be handled is the first of its instruction
FirstOfInstruction ==
    IF engine.stmt.tag \in AilTags
    THEN engine.ins_addr # engine.stmt.ins_addr
    ELSE engine.stmt.tag = "IMark"

\* the statement about to be handled is the last of its instruction, next
\* being the statement after it
LastOfInstruction(next) ==
    \/ next = NoStmt
    \/ IF next.tag \in AilTags THEN next.ins_addr # StmtInsAddr ELSE next.tag = "IMark"

\* what the snapshot that the analysis a holds under key k tells, temporaries
\* included
SnapshotOf(a, h, k) ==
    <<MergedQueries(a.observed_results[k], h), TmpQueries(a.observed_results[k], h)>>

\* C18: the OP_BEFORE snapshot of an instruction is the state before the
\* first statement of the instruction, so no later statement of the
\* instruction changes what it tells; the OP_AFTER snapshot of an
\* instruction is the state after its last statement, and no statement of
\* another instruction changes what it tells.
C18_ObservationOrder ==
    [][/\ (~FirstOfInstruction
              /\ <<StmtInsAddr, OP_BEFORE>> \in DOMAIN analysis.observed_results) =>
             SnapshotOf(analysis', heap', <<StmtInsAddr, OP_BEFORE>>)
                 = SnapshotOf(analysis, heap, <<StmtInsAddr, OP_BEFORE>>)
       /\ (LastOfInstruction(engine'.stmt) /\ engine'.raised = ""
              /\ <<StmtInsAddr, OP_AFTER>> \in analysis.observation_points) =>
             /\ <<StmtInsAddr, OP_AFTER>> \in DOMAIN analysis'.observed_results
             /\ SnapshotOf(analysis', heap', <<StmtInsAddr, OP_AFTER>>) =
                    <<MergedQueries(engine'.state, heap'), TmpQueries(engine'.state, heap')>>
       /\ \A k \in DOMAIN analysis.observed_results :
              (k[2] = OP_AFTER /\ k[1] # StmtInsAddr) =>
                  SnapshotOf(analysis', heap', k) = SnapshotOf(analysis, heap, k)]_vars

\* ------------------------------------------------------- the call hook
\* the step handles the last statement of the block
LastStmtHandled ==
    engine.stmt # NoStmt /\ engine'.stmt = NoStmt /\ engine'.caught = engine.caught

\* C21: the handling of the last statement of a block whose jumpkind is a
\* call invokes the call hook once, after the statement's OP_AFTER
\* observation, and the hook returns, so that process() produces the
\* out-state; for another jumpkind the hook is not invoked.
C21_CallHook ==
    [][LastStmtHandled =>
           IF engine.jumpkind = "Ijk_Call"
           THEN /\ engine'.hl_calls = engine.hl_calls + 1
                /\ engine'.raised = ""
                /\ <<StmtInsAddr, OP_AFTER>> \in analysis.observation_points =>
                       <<StmtInsAddr, OP_AFTER>> \in analysis'.observed
           ELSE engine'.hl_calls = engine.hl_calls /\ engine'.raised = ""]_vars

\* -------------------------------------------------------- engine errors
\* C23: when the engine raises a SimEngineError at a statement, no further
\* statement of the block is handled and the state is the one that the
\* statements handled so far have made; process() returns it when fail_fast
\* is not set and raises the error again when fail_fast is set.
C23_EngineError ==
    [][(engine.caught = "" /\ engine'.caught = "SimEngineError") =>
           /\ engine'.stmt = NoStmt
           /\ engine'.state = engine.state
           /\ heap' = heap
           /\ engine'.raised = IF analysis.fail_fast THEN "SimEngineError" ELSE ""]_vars

\* a SimEngineError was swallowed after a Put had defined register 0
C23_Witness ==
    /\ engine.caught = "SimEngineError"
    /\ engine.raised = ""
    /\ ~analysis.fail_fast
    /\ get_objects_by_offset(engine.state.register_definitions, 0) # {}

\* C22: the call hook at a depth above the maximum depth invokes no handler
\* and leaves the state as it is; every call of handle_local_function, along
\* a chain of nested analyses too, is made from a depth that is at most the
\* maximum depth and with that depth plus one as its depth argument.
C22_DepthBound ==
    [][stmt_idx' # stmt_idx =>
         /\ engine.current_depth > engine.maximum_depth =>
               /\ engine'.invoked = engine.invoked
               /\ engine'.state = engine.state
         /\ \A i \in DOMAIN engine'.invoked :
               engine'.invoked[i].name = "handle_local_function" =>
                   /\ engine'.invoked[i].current_depth <= engine'.invoked[i].maximum_depth
                   /\ engine'.invoked[i].depth = engine'.invoked[i].current_depth + 1
                   /\ i > Len(engine.invoked) =>
                         engine'.invoked[i].current_depth = engine.current_depth]_vars

\* the nested analysis of a local function is above the maximum depth, and
\* its hook, on a call of a local function again, has only logged
C22_Witness ==
    /\ engine.current_depth > engine.maximum_depth
    /\ engine.logged = "The analysis reached its maximum recursion depth."
    /\ engine.invoked # <<>>
    /\ engine.invoked[Len(engine.invoked)].name = "handle_local_function"
    /\ engine.invoked[Len(engine.invoked)].depth = engine.current_depth
    /\ \E d \in get_objects_by_offset(engine.state.register_definitions, arch.ip_offset) :
          d.data = DataSet({IntVal(2)}, arch.bits)
    /\ "handle_local_function" \in engine.function_handler

\* ------------------------------------------------------------ one_result
\* C24: one_result returns a snapshot, the one recorded, exactly when
\* observed_results holds one key; with no key and with two or more it
\* raises ValueError; it leaves observed_results as it is.
C24_OneResult ==
    [][(analysis.result = <<>> /\ analysis'.result # <<>>) =>
           /\ analysis'.observed_results = analysis.observed_results
           /\ analysis'.result[1].raised \in {"", "ValueError"}
           /\ analysis'.result[1].raised = ""
                  <=> Cardinality(DOMAIN analysis.observed_results) = 1
           /\ analysis'.result[1].raised = "" =>
                  \E k \in DOMAIN analysis.observed_results :
                      analysis'.result[1].value = {analysis.observed_results[k]}
           /\ analysis'.result[1].raised # "" => analysis'.result[1].value = {}]_vars

\* one observation was recorded, and one_result returned its snapshot
C24_Witness ==
    /\ analysis.result # <<>>
    /\ analysis.result[1].raised = ""
    /\ DOMAIN analysis.observed_results = {<<1, OP_AFTER>>}
    /\ analysis.result[1].value = {analysis.observed_results[<<1, OP_AFTER>>]}

\* ------------------------------------------------------- the frame of merge
\* the state objects a merge reads: its receiver and the others
Merged(x, others) == {slots[x]} \cup {others[i] : i \in DOMAIN others}

\* C25: s.merge(o1, ..., on) changes no query on s or on an oi (definitions
\* at every offset, the uses of every definition, the dead-virgin set), and
\* neither does a later add_use on its result.
C25_MergeFrame ==
    \A x \in Slots : \A others \in Others :
        LET r == merge(slots[x], heap, others)
        IN /\ \A a \in Merged(x, others) :
                  MergedQueries(a, r.h) = MergedQueries(a, heap)
           /\ \A atom \in RegAtoms \cup MemAtoms :
                  \A a \in Merged(x, others) :
                      MergedQueries(a, add_use(r.s, r.h, atom, stmt_idx).h) =
                          MergedQueries(a, r.h)

\* C26: the temporaries are not merged: tmp_definitions and tmp_uses of
\* s.merge(o1, ..., on) are those of s.
C26_MergeKeepsTmps ==
    \A x \in Slots : \A others \in Others :
        LET r == merge(slots[x], heap, others)
        IN /\ r.s.tmp_definitions = slots[x].tmp_definitions
           /\ r.s.tmp_uses = slots[x].tmp_uses
           /\ TmpQueries(r.s, r.h) = TmpQueries(slots[x], heap)

\* c is c.merge(s): it holds the register definition of s and its own
\* definition of the temporary, not the one of s
C26_Witness ==
    /\ slots["s"].register_definitions # {}
    /\ slots["s"].register_definitions \subseteq slots["c"].register_definitions
    /\ 0 \in DOMAIN slots["s"].tmp_definitions
    /\ 0 \in DOMAIN slots["c"].tmp_definitions
    /\ slots["c"].tmp_definitions # slots["s"].tmp_definitions

\* ------------------------------------------------------ the fixpoint driver
\* A state as a comparison of two states sees it: Definition objects are
\* equal when their atom, codeloc and data are (Definition.__eq__).
Eq(d) == [atom |-> d.atom, codeloc |-> d.codeloc, data |-> d.data]

EqRegion(region) ==
    {[start |-> e.start, size |-> e.size, obj |-> Eq(e.obj)] : e \in region}

EqUses(u, h) ==
    {<<Eq(d), Uses_get_uses(u, h, d)>> : d \in DOMAIN u.uses_by_definition}

EqState(s, h) ==
    [register_definitions |-> EqRegion(s.register_definitions),
     memory_definitions |-> EqRegion(s.memory_definitions),
     register_uses |-> EqUses(s.register_uses, h),
     memory_uses |-> EqUses(s.memory_uses, h),
     tmp_definitions |-> s.tmp_definitions,
     tmp_uses |-> [i \in DOMAIN s.tmp_uses |-> h[s.tmp_uses[i]]],
     dead_virgin_definitions |-> {Eq(d) : d \in s.dead_virgin_definitions}]

\* the block that the step has run
RunOf(node) == visitor'.runs = visitor.runs + 1 /\ node = next_node(visitor)

\* C27: when the run of a block leaves an out-state equal to the block's
\* previous out-state, the run reports no change: no successor is queued.
C27_ChangeDetected ==
    [][\A node \in Blocks :
           (/\ RunOf(node)
            /\ node \in DOMAIN visitor.out_states
            /\ EqState(visitor'.out_states[node], heap') =
                   EqState(visitor.out_states[node], heap'))
               => visitor'.worklist = visitor.worklist \ {node}]_vars

\* C28: a run of a block adds one to the block's visit counter and leaves
\* the counters of the other blocks; no step lowers a counter; the
\* max_iterations-th run of a block and every later one report no change,
\* so that no successor is queued by them.
C28_IterationCap ==
    [][\A node \in Blocks :
           /\ node_iterations(analysis', node) >= node_iterations(analysis, node)
           /\ RunOf(node) =>
                 /\ node_iterations(analysis', node) = node_iterations(analysis, node) + 1
                 /\ \A m \in Blocks \ {node} :
                        node_iterations(analysis', m) = node_iterations(analysis, m)
                 /\ node_iterations(analysis', node) >= analysis.max_iterations =>
                        visitor'.worklist = visitor.worklist \ {node}]_vars

\* a block with a successor has been run more often than max_iterations
\* times, and nothing is queued
C28_Witness ==
    \E node \in Blocks :
        /\ node_iterations(analysis, node) > analysis.max_iterations
        /\ engine.block_addr = node
        /\ successors(visitor, node) # {}
        /\ visitor.worklist = {}

\* ------------------------------------------------------------ the seed state
\* C29: the analysis does not modify the init_state object of its caller:
\* every query on it (definitions, the uses of each definition, the
\* dead-virgin set) and its back-pointer are after a block run what they were
\* before; and a block run does not modify the state it was given.
C29_SeedFrame ==
    [][\A node \in Blocks :
           RunOf(node) =>
               /\ slots' = slots
               /\ Queries(slots["s"], heap') = Queries(slots["s"], heap)
               /\ LET input == input_state(visitor, heap, node)
                  IN Queries(input.s, heap') = Queries(input.s, input.h)]_vars

\* --------------------------------------------------------------- VEX StoreG
\* C30: a StoreG whose guard evaluates to the boolean True does what the
\* Store of its address and data does; with any other guard it leaves the
\* memory definitions and the dead-virgin set as they are and creates no
\* definition.
C30_GuardedStore ==
    engine.stmt.tag = "StoreG" =>
        IF expr(Context, engine.stmt.guard, 1).value = PyBool(1)
        THEN handle_Stmt_dispatch(Context, engine.stmt) =
                 handle_Stmt_dispatch(Context, Store(engine.stmt.addr, engine.stmt.data,
                                                     engine.stmt.bits))
        ELSE /\ handle_Stmt_dispatch(Context, engine.stmt).state.memory_definitions =
                    engine.state.memory_definitions
             /\ handle_Stmt_dispatch(Context, engine.stmt).state.dead_virgin_definitions =
                    engine.state.dead_virgin_definitions
             /\ handle_Stmt_dispatch(Context, engine.stmt).nextDef = nextDef

\* a StoreG under a guard that is True has defined address 0, beside the
\* definition that a Store has made of address 1
C30_Witness ==
    /\ 1 \in DOMAIN engine.tmps
    /\ engine.tmps[1] = PyBool(1)
    /\ \E d \in get_objects_by_offset(engine.state.memory_definitions, 0) :
          d.data = DataSet({IntVal(2)}, 8) /\ d.codeloc = <<1, 3>>
    /\ \E d \in get_objects_by_offset(engine.state.memory_definitions, 1) :
          d.data = DataSet({IntVal(1)}, 8) /\ d.codeloc = <<1, 2>>

\* ------------------------------------------------------------ comparisons
\* what the comparison `iop` of two single integers is
Compared(iop, e0, e1) ==
    CASE iop = "Iop_CmpEQ" -> PyBool(IF e0.v = e1.v THEN 1 ELSE 0)
      [] iop = "Iop_CmpNE" -> PyBool(IF e0.v # e1.v THEN 1 ELSE 0)
      [] iop = "Iop_CmpLT" -> PyBool(IF e0.v < e1.v THEN 1 ELSE 0)
      [] OTHER -> DataSet({IntVal(IF e0.v < e1.v THEN 8 ELSE IF e0.v > e1.v THEN 4 ELSE 2)},
                          engine.stmt.bits)

\* C31: t2 = Cmp(t0, t1) for CmpEQ, CmpNE, CmpLT and CmpORD writes t2 for
\* every pair of operands: the comparison's result when both are single
\* integers, and {True, False} otherwise.
C31_Comparisons ==
    [][IsBinop(CmpIops) =>
           /\ 2 \in DOMAIN engine'.tmps
           /\ engine'.tmps[2] =
                  IF SingleInts(engine.tmps[0], engine.tmps[1])
                  THEN Compared(engine.stmt.data.iop,
                                CHOOSE x \in engine.tmps[0].data : TRUE,
                                CHOOSE x \in engine.tmps[1].data : TRUE)
                  ELSE TrueFalse(engine.stmt.bits)]_vars

\* ------------------------------------------------ unsupported expressions
IsUnsupported(stmt) ==
    /\ stmt.tag \in {"Put", "Store", "WrTmp"}
    /\ stmt.data.op \in {"Unop", "Binop"}
    /\ stmt.data.iop \in UnsupportedIops

\* C32: an expression that the engine does not support has the value
\* DataSet({Undefined}) and the block goes on: the Put, Store or WrTmp whose
\* data it is raises nothing and defines its target with Undefined.
C32_UnsupportedContinues ==
    [][IsUnsupported(engine.stmt) =>
           /\ engine'.raised = ""
           /\ engine.stmt.tag = "WrTmp" =>
                  /\ engine.stmt.n \in DOMAIN engine'.tmps
                  /\ engine'.tmps[engine.stmt.n] = DataSet({Undefined}, engine.stmt.bits)
           /\ engine.stmt.tag = "Put" =>
                  \E d \in get_objects_by_offset(engine'.state.register_definitions,
                                                 engine.stmt.n) :
                      d.data = DataSet({Undefined}, engine.stmt.bits)
                          /\ d.codeloc = <<engine.block_addr, stmt_idx>>
           /\ (engine.stmt.tag = "Store" /\ engine.stmt.addr = Operand(Const(1))) =>
                  \E d \in get_objects_by_offset(engine'.state.memory_definitions, 1) :
                      d.data = DataSet({Undefined}, engine.stmt.bits)
                          /\ d.codeloc = <<engine.block_addr, stmt_idx>>]_vars

\* a Put of an unsupported operation has left process() with a TypeError
C32_PutRaises == engine.raised = "TypeError" /\ engine.stmt = NoStmt

\* ------------------------------------------------ AIL register expressions
\* the assignment about to be handled reads a register into a temporary
ReadsRegister ==
    /\ engine.stmt.tag = "Assignment"
    /\ engine.stmt.src.type = "Register"
    /\ engine.stmt.dst.type = "Tmp"

\* C33: the evaluation of an AIL Register expression raises nothing; its
\* value is SpOffset(bits, 0) for the stack pointer, the same marked is_base
\* for the base pointer, and for another register the union of the data of
\* the definitions at its offset, or the expression itself when there is no
\* definition.
C33_RegisterExpr ==
    [][ReadsRegister =>
           /\ engine'.raised = ""
           /\ engine.stmt.dst.n \in DOMAIN engine'.tmps
           /\ engine'.tmps[engine.stmt.dst.n] =
                  IF engine.stmt.src.n = arch.sp_offset
                  THEN SpOffset(engine.stmt.src.bits, 0)
                  ELSE IF engine.stmt.src.n = arch.bp_offset
                  THEN [SpOffset(engine.stmt.src.bits, 0) EXCEPT !.t = "SpOffset(is_base)"]
                  ELSE IF get_objects_by_offset(engine.state.register_definitions,
                                                engine.stmt.src.n) = {}
                  THEN engine.stmt.src
                  ELSE DataSet(UnitedData(get_objects_by_offset(
                                              engine.state.register_definitions,
                                              engine.stmt.src.n)),
                               engine.stmt.src.bits)]_vars

\* ------------------------------------------------- jumps and calls of AIL
\* the definitions of the instruction pointer in the state s
IpDefs(s) == get_objects_by_offset(s.register_definitions, arch.ip_offset)

\* C34: the handling of an AIL Jump, ConditionalJump or Call raises nothing
\* and leaves none of the definitions of the instruction pointer that
\* reached the statement.
C34_JumpKills ==
    [][(engine.stmt.tag \in {"Jump", "ConditionalJump", "Call"} /\ IpDefs(engine.state) # {}) =>
           /\ engine'.raised = ""
           /\ IpDefs(engine'.state) \cap IpDefs(engine.state) = {}]_vars

\* ------------------------------------------------------ the function hook
\* the one address that the definitions of ip give: a sequence of at most
\* one integer
IpAddr(s) ==
    LET defs_ip == get_objects_by_offset(s.register_definitions, arch.ip_offset)
    IN IF Cardinality(defs_ip) = 1
          /\ \A d \in defs_ip :
                 Cardinality(d.data.data) = 1 /\ \A a \in d.data.data : a.t = "int"
       THEN <<(CHOOSE a \in (CHOOSE d \in defs_ip : TRUE).data.data : TRUE).v>>
       ELSE <<>>

\* the handler that the hook looks for at the address ip_addr
HandlerOf(ip_addr) ==
    IF contains_addr(ip_addr)
    THEN IF find_plt_stub_name(ip_addr) = ""
         THEN "handle_local_function"
         ELSE "handle_" \o find_plt_stub_name(ip_addr)
    ELSE IF find_symbol(ip_addr) = "" THEN "" ELSE "handle_" \o find_symbol(ip_addr)

Outside(region, atom) ==
    {e \in region : e.start + e.size <= atom.offset \/ atom.offset + atom.size <= e.start}

\* the recorded uses of a state: the three Uses objects as they are
RecordedUses(s) == <<s.register_uses, s.memory_uses, s.tmp_uses>>

\* C36: kill_and_add_definition on a Register changes no memory definition,
\* no recorded use, no temporary and no register definition that covers no
\* byte of the atom; on a MemoryLocation it changes no register definition,
\* no recorded use and not the dead-virgin set; on a Tmp it changes the slot
\* of that temporary only.  It changes no set object of the uses.
C36_KillAndAddFrame ==
    \A x \in Slots : \A atom \in Atoms : \A v \in Vals :
        LET s == slots[x]
            r == kill_and_add_definition(s, atom, stmt_idx,
                                         DataSet({IntVal(v)}, atom.size * 8), nextDef)
        IN /\ RecordedUses(r) = RecordedUses(s)
           /\ atom.kind = "reg" =>
                  /\ r.memory_definitions = s.memory_definitions
                  /\ r.tmp_definitions = s.tmp_definitions
                  /\ Outside(r.register_definitions, atom) = Outside(s.register_definitions, atom)
           /\ atom.kind = "mem" =>
                  /\ r.register_definitions = s.register_definitions
                  /\ r.dead_virgin_definitions = s.dead_virgin_definitions
                  /\ r.tmp_definitions = s.tmp_definitions
                  /\ Outside(r.memory_definitions, atom) = Outside(s.memory_definitions, atom)
           /\ atom.kind = "tmp" =>
                  /\ r = [s EXCEPT !.tmp_definitions = r.tmp_definitions]
                  /\ \A t \in DOMAIN s.tmp_definitions \ {atom.offset} :
                         /\ t \in DOMAIN r.tmp_definitions
                         /\ r.tmp_definitions[t] = s.tmp_definitions[t]

\* a state with definitions of the two bytes of register 0, of which one was
\* used, and a definition of memory and of a temporary: what a further call
\* has to leave alone
C36_Witness ==
    /\ \E e \in slots["s"].register_definitions : e.start = 0 /\ e.size = 1
    /\ \E e \in slots["s"].register_definitions : e.start = 1 /\ e.size = 1
    /\ slots["s"].memory_definitions # {}
    /\ 0 \in DOMAIN slots["s"].tmp_definitions

\* --------------------------------------------- dead and virgin definitions
\* C37: no definition in the dead-virgin set of a state has a recorded use.
C37_DeadVirginUnused ==
    \A x \in Slots :
        \A d \in slots[x].dead_virgin_definitions :
            Uses_get_uses(slots[x].register_uses, heap, d) = {}

\* ------------------------------------------------ recorded facts are kept
\* what the state s under the set objects h tells is still told by the state
\* t under the set objects g: the uses of every definition and the
\* dead-virgin set
Kept(s, h, t, g) ==
    /\ s.dead_virgin_definitions \subseteq t.dead_virgin_definitions
    /\ \A d \in KnownDefs(s) :
           /\ Uses_get_uses(s.register_uses, h, d) \subseteq Uses_get_uses(t.register_uses, g, d)
           /\ Uses_get_uses(s.memory_uses, h, d) \subseteq Uses_get_uses(t.memory_uses, g, d)

\* C38: recorded facts are never retracted.  A call of add_use or
\* kill_and_add_definition (kill_definitions is the same call) keeps the uses
\* of every definition and the dead-virgin set of every state object; a copy
\* tells what its source tells; a merge tells what its receiver and the
\* other state tell, and leaves what every state object tells.
C38_FactsKept ==
    [][/\ \A x \in Slots : Kept(slots[x], heap, slots[x], heap')
       /\ stmt_idx' # stmt_idx => \A x \in Slots : Kept(slots[x], heap, slots'[x], heap')
       /\ \A x \in Slots : Kept(slots[x], heap, copy(slots[x]), heap)
       /\ \A x, y \in Slots :
              /\ Kept(slots[x], heap, merge(slots[x], heap, <<slots[y]>>).s,
                      merge(slots[x], heap, <<slots[y]>>).h)
              /\ Kept(slots[y], heap, merge(slots[x], heap, <<slots[y]>>).s,
                      merge(slots[x], heap, <<slots[y]>>).h)]_vars

\* a state made by merge, with two definitions of one atom, in which a
\* definition that one side has overwritten unused still has the use that
\* the other side has recorded
C38_Witness ==
    \E x \in Slots :
        /\ \E d \in slots[x].dead_virgin_definitions :
               Uses_get_uses(slots[x].register_uses, heap, d) # {}
        /\ \E e1, e2 \in slots[x].register_definitions :
               e1.obj # e2.obj /\ e1.obj.atom = e2.obj.atom

\* ------------------------------------------------- SimStatePlugin.memo
\* the values that the calls on the plugin object have returned
ReturnedFor(p, plugin) ==
    {p.returned[i].value : i \in {j \in DOMAIN p.returned : p.returned[j].self = plugin}}

====
